---- MODULE Spec2Model ----
(***************************************************************************)
(* Trading journal: the trade store (TradeDataManager, data-manager.js),   *)
(* the single-trade calculators and the aggregations (TradeCalculator,     *)
(* calculations.js) and the trade form's validation (settings.js).         *)
(*                                                                         *)
(* Numbers.  A JavaScript Number is modelled by an integer; a quotient is  *)
(* modelled exactly, as a fraction in lowest terms [num, den] with         *)
(* den > 0, and a division by zero gives the fractions 1/0 (Infinity),     *)
(* -1/0 (-Infinity) and 0/0 (NaN).  Decimal amounts of the documentation   *)
(* (150.25) are written in thousandths (150250); binary rounding of        *)
(* IEEE-754 doubles is below the resolution of the model.                  *)
(*                                                                         *)
(* Objects.  A JavaScript object is a function from its own keys to their  *)
(* values, so an absent key is a key outside DOMAIN, and the spread        *)
(* {...a, ...b} is Merge(a, b).  Dates are integers (days).                *)
(***************************************************************************)
EXTENDS Integers, Sequences, FiniteSets, TLC

VARIABLES
    trades,     \* localStorage["tradingJournal_trades"], the persisted array
    nextId,     \* the next value generateId() returns (each call is fresh)
    last,       \* the last call: its name, arguments and outcome
    settings,   \* localStorage["tradingJournal_settings"], the saved settings
    calculator  \* tradeCalculator.settings, as the constructor loaded them

vars == <<trades, nextId, last, settings, calculator>>

(***************************************************************************)
(* Bounds of the model.                                                    *)
(***************************************************************************)
MaxTrades == 2      \* the store holds at most this many trades
MaxId == 2          \* generateId is called at most this many times
MaxLines == 2       \* lines of an imported CSV after the header line
MaxAgg == 2         \* trades of a collection handed to a summary

(***************************************************************************)
(* Numbers and objects.                                                    *)
(***************************************************************************)
Abs(n) == IF n < 0 THEN -n ELSE n

Sgn(n) == IF n < 0 THEN -1 ELSE IF n > 0 THEN 1 ELSE 0

RECURSIVE GCD(_, _)
GCD(a, b) == IF b = 0 THEN a ELSE GCD(b, a % b)

\* n / d of JavaScript, exactly.
Div(n, d) ==
    IF d = 0 THEN [num |-> Sgn(n), den |-> 0]
    ELSE LET g == GCD(Abs(n), Abs(d))
         IN  [num |-> (Sgn(d) * n) \div g, den |-> Abs(d) \div g]

Zero == [num |-> 0, den |-> 1]

Has(o, k) == k \in DOMAIN o

\* {...a, ...b}
Merge(a, b) == [k \in (DOMAIN a) \cup (DOMAIN b) |-> IF k \in DOMAIN b THEN b[k] ELSE a[k]]

\* !!o[k] for a key holding a number
TruthyNum(o, k) == Has(o, k) /\ o[k] # 0

\* s.trim() on the symbols of the model
trim(s) == IF s = " " THEN "" ELSE s

\* !!o[k] for a key holding a string
TruthyStr(o, k) == Has(o, k) /\ o[k] # ""

\* errors.join(sep)
RECURSIVE join(_, _)
join(errors, sep) ==
    IF errors = <<>> THEN ""
    ELSE IF Len(errors) = 1 THEN errors[1]
    ELSE errors[1] \o sep \o join(Tail(errors), sep)

(***************************************************************************)
(* TradeDataManager: the single-trade calculators.                         *)
(***************************************************************************)
\* the fallback account size written in calculateRiskPercent
DefaultAccountSize == 10000

\* trade.status, "undefined" when the key is absent
statusOf(trade) == IF Has(trade, "status") THEN trade.status ELSE "undefined"

\* trade.direction, "undefined" when the key is absent
directionOf(trade) == IF Has(trade, "direction") THEN trade.direction ELSE "undefined"

\* (trade.commission || 0)
commissionOf(trade) == IF TruthyNum(trade, "commission") THEN trade.commission ELSE 0

\* A profit/loss that forgets the commission; C10 must tell it from
\* calculateProfitLoss.
calculateGrossProfitLoss(trade) ==
    IF ~TruthyNum(trade, "exitPrice") \/ statusOf(trade) = "open" THEN 0
    ELSE IF directionOf(trade) = "long"
    THEN (trade.exitPrice - trade.entryPrice) * trade.positionSize
    ELSE (trade.entryPrice - trade.exitPrice) * trade.positionSize

calculateProfitLoss(trade) ==
    IF ~TruthyNum(trade, "exitPrice") \/ statusOf(trade) = "open" THEN 0
    ELSE LET priceDiff == IF directionOf(trade) = "long"
                          THEN trade.exitPrice - trade.entryPrice
                          ELSE trade.entryPrice - trade.exitPrice
             grossPL == priceDiff * trade.positionSize
             netPL == grossPL - commissionOf(trade)
         IN  netPL

calculateProfitLossPercent(trade) ==
    IF ~TruthyNum(trade, "exitPrice") \/ statusOf(trade) = "open" THEN Zero
    ELSE LET entryValue == trade.entryPrice * trade.positionSize
             netPL == calculateProfitLoss(trade)
         IN  Div(netPL * 100, entryValue)

\* A risk that takes the distance to the stop without its direction; C12 must
\* tell it from calculateRiskAmount.
calculateRiskAmountUndirected(trade) ==
    IF ~TruthyNum(trade, "stopLoss") THEN 0
    ELSE Abs(trade.entryPrice - trade.stopLoss) * trade.positionSize

calculateRiskAmount(trade) ==
    IF ~TruthyNum(trade, "stopLoss") THEN 0
    ELSE LET priceRisk == IF directionOf(trade) = "long"
                          THEN trade.entryPrice - trade.stopLoss
                          ELSE trade.stopLoss - trade.entryPrice
         IN  priceRisk * trade.positionSize

calculateRewardAmount(trade) ==
    IF ~TruthyNum(trade, "takeProfit") THEN 0
    ELSE LET priceReward == IF directionOf(trade) = "long"
                            THEN trade.takeProfit - trade.entryPrice
                            ELSE trade.entryPrice - trade.takeProfit
         IN  priceReward * trade.positionSize

calculateRiskRewardRatio(trade) ==
    LET riskAmount == calculateRiskAmount(trade)
        rewardAmount == calculateRewardAmount(trade)
    IN  IF riskAmount = 0 THEN Zero ELSE Div(rewardAmount, riskAmount)

calculateRiskPercent(trade) ==
    LET riskAmount == calculateRiskAmount(trade)
        accountSize == IF TruthyNum(trade, "accountSize") THEN trade.accountSize
                       ELSE DefaultAccountSize
    IN  IF accountSize = 0 THEN Zero ELSE Div(riskAmount * 100, accountSize)

\* TradeCalculator.calculateProfitLoss, the copy of the calculator in
\* calculations.js
TradeCalculator_calculateProfitLoss(trade) ==
    IF ~TruthyNum(trade, "exitPrice") \/ statusOf(trade) = "open" THEN 0
    ELSE LET priceDiff == IF directionOf(trade) = "long"
                          THEN trade.exitPrice - trade.entryPrice
                          ELSE trade.entryPrice - trade.exitPrice
             grossPL == priceDiff * trade.positionSize
             netPL == grossPL - commissionOf(trade)
         IN  netPL

\* TradeCalculator.calculateProfitLossPercent: unlike the store's, it gives 0
\* when the entry value is not positive
TradeCalculator_calculateProfitLossPercent(trade) ==
    IF ~TruthyNum(trade, "exitPrice") \/ statusOf(trade) = "open" THEN Zero
    ELSE LET entryValue == trade.entryPrice * trade.positionSize
             netPL == TradeCalculator_calculateProfitLoss(trade)
         IN  IF entryValue > 0 THEN Div(netPL * 100, entryValue) ELSE Zero

TradeCalculator_calculateRiskAmount(trade) ==
    IF ~TruthyNum(trade, "stopLoss") THEN 0
    ELSE LET priceRisk == IF directionOf(trade) = "long"
                          THEN trade.entryPrice - trade.stopLoss
                          ELSE trade.stopLoss - trade.entryPrice
         IN  priceRisk * trade.positionSize

\* TradeCalculator.calculateRiskPercent; thisSettings is this.settings, what
\* loadSettings() returned when the TradeCalculator was constructed
TradeCalculator_calculateRiskPercent(trade, thisSettings) ==
    LET riskAmount == TradeCalculator_calculateRiskAmount(trade)
        accountSize == IF TruthyNum(trade, "accountSize") THEN trade.accountSize
                       ELSE thisSettings.accountSize
    IN  IF accountSize = 0 THEN Zero ELSE Div(riskAmount * 100, accountSize)

(***************************************************************************)
(* TradeDataManager.validateTrade: every rule is tried, the messages of    *)
(* the violated ones are collected in the order of the code.               *)
(***************************************************************************)
msgIf(cond, msg) == IF cond THEN <<msg>> ELSE <<>>

validateTrade(trade) ==
       msgIf(~TruthyStr(trade, "assetType"), "Asset type is required")
    \o msgIf(~TruthyStr(trade, "symbol") \/ trim(trade.symbol) = "", "Symbol is required")
    \o msgIf(~TruthyStr(trade, "direction"), "Direction is required")
    \o msgIf(~TruthyNum(trade, "positionSize") \/ trade.positionSize <= 0,
             "Position size must be greater than 0")
    \o msgIf(~TruthyNum(trade, "entryPrice") \/ trade.entryPrice <= 0,
             "Entry price must be greater than 0")
    \o msgIf(~Has(trade, "entryDate"), "Entry date is required")
    \o msgIf(TruthyNum(trade, "exitPrice") /\ trade.exitPrice <= 0,
             "Exit price must be greater than 0")
    \o msgIf(TruthyNum(trade, "stopLoss") /\ trade.stopLoss <= 0,
             "Stop loss must be greater than 0")
    \o msgIf(TruthyNum(trade, "takeProfit") /\ trade.takeProfit <= 0,
             "Take profit must be greater than 0")
    \o msgIf(Has(trade, "exitDate") /\ Has(trade, "entryDate") /\ trade.exitDate < trade.entryDate,
             "Exit date cannot be before entry date")
    \o msgIf(TruthyNum(trade, "accountSize") /\ TruthyNum(trade, "riskAmount")
                /\ trade.riskAmount > trade.accountSize,
             "Risk amount cannot exceed account size")

(***************************************************************************)
(* TradeDataManager: the store operations.  Each yields the outcome of the *)
(* call and the array persisted after it.                                  *)
(***************************************************************************)
\* saveTrades(trades): localStorage.setItem may throw (quota); the error is
\* caught, false is returned and the persisted array stays `stored`.
saveTrades(newTrades, stored, storageOk) == IF storageOk THEN newTrades ELSE stored

\* A recalculation that assigns a derived field only where the object has none
\* yet; C2 must tell it from recalculate.
recalculateMissingOnly(trade) ==
    Merge([profitLoss |-> calculateProfitLoss(trade),
           profitLossPercent |-> calculateProfitLossPercent(trade),
           riskAmount |-> calculateRiskAmount(trade),
           rewardAmount |-> calculateRewardAmount(trade),
           riskRewardRatio |-> calculateRiskRewardRatio(trade),
           riskPercent |-> calculateRiskPercent(trade)], trade)

\* The six assignments "Calculate derived fields", in the order of the code;
\* each calculator is given the object as the assignments before it left it.
recalculate(trade) ==
    LET t1 == Merge(trade, [profitLoss |-> calculateProfitLoss(trade)])
        t2 == Merge(t1, [profitLossPercent |-> calculateProfitLossPercent(t1)])
        t3 == Merge(t2, [riskAmount |-> calculateRiskAmount(t2)])
        t4 == Merge(t3, [rewardAmount |-> calculateRewardAmount(t3)])
        t5 == Merge(t4, [riskRewardRatio |-> calculateRiskRewardRatio(t4)])
        t6 == Merge(t5, [riskPercent |-> calculateRiskPercent(t5)])
    IN  t6

\* trades.findIndex(trade => trade.id === tradeId), 0 for -1
RECURSIVE findIndexFrom(_, _, _)
findIndexFrom(ts, tradeId, i) ==
    IF i > Len(ts) THEN 0
    ELSE IF ts[i].id = tradeId THEN i
    ELSE findIndexFrom(ts, tradeId, i + 1)

findIndex(ts, tradeId) == findIndexFrom(ts, tradeId, 1)

\* An addTrade that pushes and saves before it validates; C4 must tell it from
\* addTrade.
addTradeSavingFirst(stored, tradeData, freshId, now, storageOk) ==
    LET validationErrors == validateTrade(tradeData)
        created == Merge(Merge([id |-> freshId], tradeData),
                         [createdAt |-> now, updatedAt |-> now])
        newTrade == recalculate(created)
        store == saveTrades(Append(stored, newTrade), stored, storageOk)
    IN  IF Len(validationErrors) > 0
        THEN [outcome |-> "throw", err |-> join(validationErrors, ", "), store |-> store]
        ELSE [outcome |-> "return", ret |-> newTrade, merged |-> created, saved |-> storageOk,
              store |-> store]

addTrade(stored, tradeData, freshId, now, storageOk) ==
    LET validationErrors == validateTrade(tradeData)
        created == Merge(Merge([id |-> freshId], tradeData),
                         [createdAt |-> now, updatedAt |-> now])
        newTrade == recalculate(created)
    IN  IF Len(validationErrors) > 0
        THEN [outcome |-> "throw", err |-> join(validationErrors, ", "), store |-> stored]
        ELSE [outcome |-> "return", ret |-> newTrade, merged |-> created, saved |-> storageOk,
              store |-> saveTrades(Append(stored, newTrade), stored, storageOk)]

updateTrade(stored, tradeId, updates, now, storageOk) ==
    LET index == findIndex(stored, tradeId)
        validationErrors == validateTrade(Merge(stored[index], updates))
        updated == Merge(Merge(stored[index], updates), [updatedAt |-> now])
        newTrade == recalculate(updated)
    IN  IF index = 0
        THEN [outcome |-> "throw", err |-> "Trade not found", store |-> stored]
        ELSE IF Len(validationErrors) > 0
        THEN [outcome |-> "throw", err |-> join(validationErrors, ", "), store |-> stored]
        ELSE [outcome |-> "return", ret |-> newTrade, merged |-> updated, index |-> index,
              saved |-> storageOk,
              store |-> saveTrades([stored EXCEPT ![index] = newTrade], stored, storageOk)]

deleteTrade(stored, tradeId, storageOk) ==
    LET keep(trade) == trade.id # tradeId
        filteredTrades == SelectSeq(stored, keep)
    IN  IF Len(filteredTrades) = Len(stored)
        THEN [outcome |-> "throw", err |-> "Trade not found", store |-> stored]
        ELSE [outcome |-> "return", ret |-> TRUE, saved |-> storageOk,
              store |-> saveTrades(filteredTrades, stored, storageOk)]

getTrade(stored, tradeId) ==
    LET index == findIndex(stored, tradeId)
    IN  IF index = 0
        THEN [outcome |-> "throw", err |-> "Trade not found", store |-> stored]
        ELSE [outcome |-> "return", ret |-> stored[index], store |-> stored]

(***************************************************************************)
(* importFromCSV.  The text is modelled after csvContent.split("\n") and   *)
(* the split of each line on ",": `lines` are the lines after the header   *)
(* line, each blank or a row; a row gives for every header of the file     *)
(* either its cell's value (cells) or that the cell is empty (blank).      *)
(***************************************************************************)
NumericHeaders ==
    {"positionSize", "entryPrice", "exitPrice", "commission", "stopLoss", "takeProfit",
     "profitLoss", "profitLossPercent", "riskAmount", "rewardAmount", "riskRewardRatio",
     "riskPercent", "rating"}

\* the object built from one line: parseFloat(value) || 0 for the numeric
\* headers, the text of the cell for the others
parseLine(line) ==
    Merge(line.cells, [k \in line.blank |-> IF k \in NumericHeaders THEN 0 ELSE ""])

\* String(n) for the row numbers of the model
toString(n) ==
    CASE n = 0 -> "0" [] n = 1 -> "1" [] n = 2 -> "2" [] n = 3 -> "3" [] n = 4 -> "4"
      [] n = 5 -> "5" [] n = 6 -> "6" [] n = 7 -> "7" [] n = 8 -> "8" [] n = 9 -> "9"

isRow(line) == line.kind = "row"

\* the objects pushed by the parsing loop: generateId() is called once per row
parsedTrades(lines, freshId, now) ==
    LET rows == SelectSeq(lines, isRow)
    IN  [i \in 1 .. Len(rows) |->
            Merge(parseLine(rows[i]),
                  [id |-> freshId + i - 1, createdAt |-> now, updatedAt |-> now])]

RECURSIVE rowErrorsFrom(_, _)
rowErrorsFrom(parsed, i) ==
    IF i > Len(parsed) THEN <<>>
    ELSE LET errors == validateTrade(parsed[i])
         IN  msgIf(Len(errors) > 0, "Row " \o toString(i) \o ": " \o join(errors, ", "))
             \o rowErrorsFrom(parsed, i + 1)

importFromCSV(stored, lines, freshId, now, storageOk) ==
    LET parsed == parsedTrades(lines, freshId, now)
        validationErrors == rowErrorsFrom(parsed, 1)
    IN  IF Len(lines) + 1 < 2
        THEN [outcome |-> "throw", err |-> "CSV file is empty or invalid", idsUsed |-> 0,
              store |-> stored]
        ELSE IF Len(validationErrors) > 0
        THEN [outcome |-> "throw", err |-> "Validation errors: " \o join(validationErrors, "; "),
              idsUsed |-> Len(parsed), store |-> stored]
        ELSE [outcome |-> "return", ret |-> Len(parsed), parsed |-> parsed,
              idsUsed |-> Len(parsed), saved |-> storageOk,
              store |-> saveTrades(stored \o parsed, stored, storageOk)]

(***************************************************************************)
(* exportToCSV.  The text is modelled as importFromCSV reads it: the lines *)
(* after the header line, each giving for every header of the file the     *)
(* text of its cell or that the cell is empty.  The headers of an exported *)
(* file are the column titles written in exportToCSV.                      *)
(***************************************************************************)
\* `${field}` of a number: its decimal text, which is not the number
templateLiteral(field) == [text |-> field]

\* the columns written as trade[key] || "": title and key
OrEmptyColumns ==
    {<<"Exit Price", "exitPrice">>, <<"Exit Date", "exitDate">>,
     <<"Commission", "commission">>, <<"Stop Loss", "stopLoss">>,
     <<"Take Profit", "takeProfit">>, <<"Strategy", "strategy">>,
     <<"Emotional State", "emotionalState">>,
     <<"Market Conditions", "marketConditions">>, <<"Rating", "rating">>}

\* the columns of these that hold numbers (entered as numbers, dates apart)
NumberColumns == {"exitPrice", "commission", "stopLoss", "takeProfit", "rating"}

\* !!trade[key] for a column written with || ""
truthyColumn(trade, key) ==
    IF key \in NumberColumns THEN TruthyNum(trade, key)
    ELSE IF key = "exitDate" THEN Has(trade, key)
    ELSE TruthyStr(trade, key)

\* ratio || 0 for a derived ratio: NaN and 0 are written as 0
orZero(ratio) == IF ratio.num = 0 THEN 0 ELSE ratio

\* one line of the export: the cells between the quotes that importFromCSV
\* strips, keyed by the titles of the header line
exportLine(trade) ==
    LET written == {c \in OrEmptyColumns : truthyColumn(trade, c[2])}
        empty == {c[1] : c \in OrEmptyColumns \ written}
        always ==
            [h \in {"ID", "Asset Type", "Symbol", "Direction", "Status", "Position Size",
                    "Entry Price", "Entry Date", "Profit/Loss", "P&L %", "Risk Amount",
                    "Reward Amount", "R:R Ratio", "Risk %", "Created At", "Updated At"} |->
                CASE h = "ID" -> trade.id
                  [] h = "Asset Type" -> trade.assetType
                  [] h = "Symbol" -> trade.symbol
                  [] h = "Direction" -> trade.direction
                  [] h = "Status" -> trade.status
                  [] h = "Position Size" -> templateLiteral(trade.positionSize)
                  [] h = "Entry Price" -> templateLiteral(trade.entryPrice)
                  [] h = "Entry Date" -> trade.entryDate
                  [] h = "Profit/Loss" -> templateLiteral(trade.profitLoss)
                  [] h = "P&L %" -> templateLiteral(orZero(trade.profitLossPercent))
                  [] h = "Risk Amount" -> templateLiteral(trade.riskAmount)
                  [] h = "Reward Amount" -> templateLiteral(trade.rewardAmount)
                  [] h = "R:R Ratio" -> templateLiteral(orZero(trade.riskRewardRatio))
                  [] h = "Risk %" -> templateLiteral(orZero(trade.riskPercent))
                  [] h = "Created At" -> trade.createdAt
                  [] h = "Updated At" -> trade.updatedAt]
        optional ==
            [h \in {c[1] : c \in written} |->
                LET key == (CHOOSE c \in written : c[1] = h)[2]
                IN  IF key \in NumberColumns THEN templateLiteral(trade[key])
                    ELSE trade[key]]
    IN  [kind |-> "row", cells |-> Merge(always, optional), blank |-> empty]

exportToCSV(tradesToExport) ==
    IF Len(tradesToExport) = 0
    THEN [outcome |-> "throw", err |-> "No trades to export"]
    ELSE [outcome |-> "return",
          ret |-> [i \in 1 .. Len(tradesToExport) |-> exportLine(tradesToExport[i])]]

(***************************************************************************)
(* The trade form (settings.js): validateFormData, then addTrade.          *)
(***************************************************************************)
validateFormData(formData) ==
       msgIf(~TruthyStr(formData, "assetType"), "Asset type is required")
    \o msgIf(~TruthyStr(formData, "symbol") \/ trim(formData.symbol) = "", "Symbol is required")
    \o msgIf(~TruthyStr(formData, "direction"), "Trade direction is required")
    \o msgIf(~TruthyNum(formData, "positionSize") \/ formData.positionSize <= 0,
             "Position size must be greater than 0")
    \o msgIf(~TruthyNum(formData, "entryPrice") \/ formData.entryPrice <= 0,
             "Entry price must be greater than 0")
    \o msgIf(~Has(formData, "entryDate"), "Entry date is required")
    \o msgIf(TruthyNum(formData, "exitPrice") /\ formData.exitPrice <= 0,
             "Exit price must be greater than 0")
    \o msgIf(TruthyNum(formData, "stopLoss") /\ formData.stopLoss <= 0,
             "Stop loss must be greater than 0")
    \o msgIf(TruthyNum(formData, "takeProfit") /\ formData.takeProfit <= 0,
             "Take profit must be greater than 0")
    \o msgIf(Has(formData, "exitDate") /\ Has(formData, "entryDate")
                /\ formData.exitDate < formData.entryDate,
             "Exit date cannot be before entry date")
    \o msgIf(TruthyNum(formData, "stopLoss") /\ TruthyNum(formData, "entryPrice")
                /\ ~(IF directionOf(formData) = "long"
                     THEN formData.stopLoss < formData.entryPrice
                     ELSE formData.stopLoss > formData.entryPrice),
             "Stop loss must be below entry price for long positions and above for short positions")
    \o msgIf(TruthyNum(formData, "takeProfit") /\ TruthyNum(formData, "entryPrice")
                /\ ~(IF directionOf(formData) = "long"
                     THEN formData.takeProfit > formData.entryPrice
                     ELSE formData.takeProfit < formData.entryPrice),
             "Take profit must be above entry price for long positions and below for short positions")
    \o msgIf(TruthyNum(formData, "accountSize") /\ TruthyNum(formData, "positionSize")
                /\ TruthyNum(formData, "entryPrice") /\ TruthyNum(formData, "stopLoss")
                /\ formData.positionSize * formData.entryPrice > formData.accountSize,
             "Position value cannot exceed account size")

\* handleFormSubmit: the errors are shown and nothing is saved, or the form's
\* data is given to addTrade, whose error is caught and shown
handleFormSubmit(stored, formData, freshId, now, storageOk) ==
    LET validationErrors == validateFormData(formData)
        r == addTrade(stored, formData, freshId, now, storageOk)
    IN  IF Len(validationErrors) > 0
        THEN [outcome |-> "shown", errors |-> validationErrors, store |-> stored]
        ELSE r

(***************************************************************************)
(* The summaries.  getPerformanceSummary and its two helpers are           *)
(* TradeDataManager's, the others TradeCalculator's.  A collection is a    *)
(* sequence of trades; filter makes a new array, sort orders in place the  *)
(* array it is called on, which here is always a filtered copy.            *)
(***************************************************************************)
\* the default of getEquityCurveData's initialCapital
DefaultInitialCapital == 10000

MathMax(a, b) == IF a >= b THEN a ELSE b

MathMin(a, b) == IF a <= b THEN a ELSE b

\* a + b of two quotients
Plus(a, b) == Div(a.num * b.den + b.num * a.den, a.den * b.den)

isClosed(trade) == statusOf(trade) = "closed"

isWinning(trade) == trade.profitLoss > 0

isLosing(trade) == trade.profitLoss < 0

\* reduce((sum, trade) => sum + trade.profitLoss, 0)
RECURSIVE sumProfitLoss(_)
sumProfitLoss(ts) ==
    IF ts = <<>> THEN 0 ELSE ts[1].profitLoss + sumProfitLoss(Tail(ts))

\* reduce((sum, trade) => sum + (trade.riskRewardRatio || 0), 0)
RECURSIVE sumRiskReward(_)
sumRiskReward(ts) ==
    IF ts = <<>> THEN Zero
    ELSE Plus(IF Has(ts[1], "riskRewardRatio") /\ ts[1].riskRewardRatio.num # 0
              THEN ts[1].riskRewardRatio ELSE Zero,
              sumRiskReward(Tail(ts)))

\* Math.max(...ts.map(t => t.profitLoss)) of a non-empty array
RECURSIVE maxProfitLoss(_)
maxProfitLoss(ts) ==
    IF Len(ts) = 1 THEN ts[1].profitLoss
    ELSE MathMax(ts[1].profitLoss, maxProfitLoss(Tail(ts)))

\* Math.min(...ts.map(t => t.profitLoss)) of a non-empty array
RECURSIVE minProfitLoss(_)
minProfitLoss(ts) ==
    IF Len(ts) = 1 THEN ts[1].profitLoss
    ELSE MathMin(ts[1].profitLoss, minProfitLoss(Tail(ts)))

\* ts.sort((a, b) => new Date(a.exitDate) - new Date(b.exitDate)), or with a
\* and b exchanged when `descending`: the sort is stable, trades of one exit
\* date keep their order.
RECURSIVE insertByExitDate(_, _, _)
insertByExitDate(sorted, trade, descending) ==
    IF sorted = <<>> THEN <<trade>>
    ELSE IF (IF descending THEN sorted[1].exitDate >= trade.exitDate
             ELSE sorted[1].exitDate <= trade.exitDate)
    THEN <<sorted[1]>> \o insertByExitDate(Tail(sorted), trade, descending)
    ELSE <<trade>> \o sorted

RECURSIVE sortByExitDate(_, _)
sortByExitDate(ts, descending) ==
    IF ts = <<>> THEN <<>>
    ELSE insertByExitDate(sortByExitDate(SubSeq(ts, 1, Len(ts) - 1), descending),
                          ts[Len(ts)], descending)

\* the loop of calculateStreaks from its i-th trade on
RECURSIVE streaksFrom(_, _, _, _, _)
streaksFrom(sortedTrades, i, tempStreak, bestStreak, worstStreak) ==
    IF i > Len(sortedTrades)
    THEN [current |-> tempStreak, best |-> bestStreak, worst |-> worstStreak]
    ELSE LET trade == sortedTrades[i]
             temp == IF trade.profitLoss > 0
                     THEN (IF tempStreak >= 0 THEN tempStreak + 1 ELSE 1)
                     ELSE IF trade.profitLoss < 0
                     THEN (IF tempStreak <= 0 THEN tempStreak - 1 ELSE -1)
                     ELSE tempStreak
         IN  streaksFrom(sortedTrades, i + 1, temp, MathMax(bestStreak, temp),
                         MathMin(worstStreak, temp))

calculateStreaks(ts) ==
    IF Len(ts) = 0 THEN [current |-> 0, best |-> 0, worst |-> 0]
    ELSE streaksFrom(sortByExitDate(ts, TRUE), 1, 0, 0, 0)

\* the loop of calculateMaxDrawdown from its i-th trade on
RECURSIVE drawdownFrom(_, _, _, _, _)
drawdownFrom(sortedTrades, i, peak, maxDrawdown, runningTotal) ==
    IF i > Len(sortedTrades) THEN maxDrawdown
    ELSE LET total == runningTotal + sortedTrades[i].profitLoss
             newPeak == MathMax(peak, total)
             drawdown == newPeak - total
         IN  drawdownFrom(sortedTrades, i + 1, newPeak, MathMax(maxDrawdown, drawdown), total)

\* A drawdown over the trades in the order of the array; C23 must tell it
\* from calculateMaxDrawdown.
calculateMaxDrawdownUnsorted(ts) ==
    IF Len(ts) = 0 THEN 0 ELSE drawdownFrom(ts, 1, 0, 0, 0)

calculateMaxDrawdown(ts) ==
    IF Len(ts) = 0 THEN 0
    ELSE drawdownFrom(sortByExitDate(ts, FALSE), 1, 0, 0, 0)

\* getPerformanceSummary(trades) with the array given.  calculateStreaks has
\* sorted closedTrades (newest first) when calculateMaxDrawdown is handed it.
getPerformanceSummary(tradesToAnalyze) ==
    LET closedTrades == SelectSeq(tradesToAnalyze, isClosed)
        winningTrades == SelectSeq(closedTrades, isWinning)
        losingTrades == SelectSeq(closedTrades, isLosing)
        totalProfit == sumProfitLoss(winningTrades)
        totalLoss == Abs(sumProfitLoss(losingTrades))
        streaks == calculateStreaks(closedTrades)
    IN  IF Len(tradesToAnalyze) = 0
        THEN [totalTrades |-> 0, winningTrades |-> 0, losingTrades |-> 0, winRate |-> Zero,
              totalProfit |-> 0, totalLoss |-> 0, netProfit |-> 0, profitFactor |-> Zero,
              averageWin |-> Zero, averageLoss |-> Zero, largestWin |-> 0, largestLoss |-> 0,
              averageRiskReward |-> Zero, maxDrawdown |-> 0, currentStreak |-> 0,
              bestStreak |-> 0, worstStreak |-> 0]
        ELSE [totalTrades |-> Len(tradesToAnalyze),
              winningTrades |-> Len(winningTrades),
              losingTrades |-> Len(losingTrades),
              winRate |-> IF Len(closedTrades) > 0
                          THEN Div(Len(winningTrades) * 100, Len(closedTrades)) ELSE Zero,
              totalProfit |-> totalProfit,
              totalLoss |-> totalLoss,
              netProfit |-> totalProfit - totalLoss,
              profitFactor |-> IF totalLoss > 0 THEN Div(totalProfit, totalLoss) ELSE Zero,
              averageWin |-> IF Len(winningTrades) > 0
                             THEN Div(totalProfit, Len(winningTrades)) ELSE Zero,
              averageLoss |-> IF Len(losingTrades) > 0
                              THEN Div(totalLoss, Len(losingTrades)) ELSE Zero,
              largestWin |-> IF Len(winningTrades) > 0 THEN maxProfitLoss(winningTrades) ELSE 0,
              largestLoss |-> IF Len(losingTrades) > 0 THEN minProfitLoss(losingTrades) ELSE 0,
              averageRiskReward |->
                  IF Len(closedTrades) > 0
                  THEN LET sum == sumRiskReward(closedTrades)
                       IN  Div(sum.num, sum.den * Len(closedTrades))
                  ELSE Zero,
              maxDrawdown |-> calculateMaxDrawdown(sortByExitDate(closedTrades, TRUE)),
              currentStreak |-> streaks.current,
              bestStreak |-> streaks.best,
              worstStreak |-> streaks.worst]

\* A win rate over all the trades given, open and cancelled ones included;
\* C14 must tell it from calculateWinRate.
calculateWinRateOfAll(ts) ==
    LET winningTrades == SelectSeq(SelectSeq(ts, isClosed), isWinning)
    IN  IF Len(ts) = 0 THEN Zero ELSE Div(Len(winningTrades) * 100, Len(ts))

calculateWinRate(ts) ==
    LET closedTrades == SelectSeq(ts, isClosed)
        winningTrades == SelectSeq(closedTrades, isWinning)
    IN  IF Len(closedTrades) = 0 THEN Zero
        ELSE Div(Len(winningTrades) * 100, Len(closedTrades))

\* A profit factor over the signed sum of the losses; C15 must tell it from
\* calculateProfitFactor.
calculateProfitFactorSigned(ts) ==
    LET closedTrades == SelectSeq(ts, isClosed)
        totalProfit == sumProfitLoss(SelectSeq(closedTrades, isWinning))
        totalLoss == sumProfitLoss(SelectSeq(closedTrades, isLosing))
    IN  IF totalLoss # 0 THEN Div(totalProfit, totalLoss) ELSE Zero

calculateProfitFactor(ts) ==
    LET closedTrades == SelectSeq(ts, isClosed)
        totalProfit == sumProfitLoss(SelectSeq(closedTrades, isWinning))
        totalLoss == Abs(sumProfitLoss(SelectSeq(closedTrades, isLosing)))
    IN  IF Len(closedTrades) = 0 THEN Zero
        ELSE IF totalLoss > 0 THEN Div(totalProfit, totalLoss) ELSE Zero

calculateAverageWin(ts) ==
    LET winningTrades == SelectSeq(ts, LAMBDA trade : isClosed(trade) /\ isWinning(trade))
    IN  IF Len(winningTrades) = 0 THEN Zero
        ELSE Div(sumProfitLoss(winningTrades), Len(winningTrades))

calculateAverageLoss(ts) ==
    LET losingTrades == SelectSeq(ts, LAMBDA trade : isClosed(trade) /\ isLosing(trade))
    IN  IF Len(losingTrades) = 0 THEN Zero
        ELSE Div(sumProfitLoss(losingTrades), Len(losingTrades))

calculateAverageRiskReward(ts) ==
    LET closedTrades == SelectSeq(ts, isClosed)
        totalRR == sumRiskReward(closedTrades)
    IN  IF Len(closedTrades) = 0 THEN Zero
        ELSE Div(totalRR.num, totalRR.den * Len(closedTrades))

TradeCalculator_calculateMaxDrawdown(ts) ==
    LET closedTrades == SelectSeq(ts, isClosed)
    IN  IF Len(closedTrades) = 0 THEN 0
        ELSE drawdownFrom(sortByExitDate(closedTrades, FALSE), 1, 0, 0, 0)

\* the loop of calculateMaxDrawdownPercent from its i-th trade on
RECURSIVE drawdownPercentFrom(_, _, _, _, _)
drawdownPercentFrom(sortedTrades, i, peak, maxDrawdownPercent, runningTotal) ==
    IF i > Len(sortedTrades) THEN maxDrawdownPercent
    ELSE LET total == runningTotal + sortedTrades[i].profitLoss
             newPeak == MathMax(peak, total)
             drawdownPercent == Div((newPeak - total) * 100, newPeak)
             newMax == IF newPeak > 0
                          /\ drawdownPercent.num * maxDrawdownPercent.den
                                > maxDrawdownPercent.num * drawdownPercent.den
                       THEN drawdownPercent ELSE maxDrawdownPercent
         IN  drawdownPercentFrom(sortedTrades, i + 1, newPeak, newMax, total)

calculateMaxDrawdownPercent(ts) ==
    LET closedTrades == SelectSeq(ts, isClosed)
    IN  IF Len(closedTrades) = 0 THEN Zero
        ELSE drawdownPercentFrom(sortByExitDate(closedTrades, FALSE), 1, 0, Zero, 0)

\* (trade.profitLoss || 0)
profitLossOrZero(trade) == IF Has(trade, "profitLoss") THEN trade.profitLoss ELSE 0

\* reduce((sum, t) => sum + (t.profitLoss || 0), 0)
RECURSIVE sumProfitLossOrZero(_)
sumProfitLossOrZero(ts) ==
    IF ts = <<>> THEN 0 ELSE profitLossOrZero(ts[1]) + sumProfitLossOrZero(Tail(ts))

\* the entry that getPerformanceByAssetType, getPerformanceByStrategy and
\* getPerformanceByEmotionalState each build for the trades of one group
groupPerformance(groupTrades) ==
    [totalTrades |-> Len(groupTrades),
     winningTrades |-> Len(SelectSeq(groupTrades, LAMBDA t : profitLossOrZero(t) > 0)),
     losingTrades |-> Len(SelectSeq(groupTrades, LAMBDA t : profitLossOrZero(t) < 0)),
     winRate |-> calculateWinRate(groupTrades),
     totalPL |-> sumProfitLossOrZero(groupTrades),
     profitFactor |-> calculateProfitFactor(groupTrades),
     averageRR |-> calculateAverageRiskReward(groupTrades)]

\* [...new Set(ts.map(trade => trade[key]).filter(Boolean))]
distinctValues(ts, key) == {ts[i][key] : i \in {j \in 1 .. Len(ts) : TruthyStr(ts[j], key)}}

getPerformanceByAssetType(ts) ==
    [assetType \in {"stocks", "forex", "crypto", "options"} |->
        groupPerformance(SelectSeq(ts, LAMBDA trade :
            Has(trade, "assetType") /\ trade.assetType = assetType))]

getPerformanceByStrategy(ts) ==
    [strategy \in distinctValues(ts, "strategy") |->
        groupPerformance(SelectSeq(ts, LAMBDA trade :
            Has(trade, "strategy") /\ trade.strategy = strategy))]

getPerformanceByEmotionalState(ts) ==
    [state \in distinctValues(ts, "emotionalState") |->
        groupPerformance(SelectSeq(ts, LAMBDA trade :
            Has(trade, "emotionalState") /\ trade.emotionalState = state))]

\* the forEach of getEquityCurveData from its i-th trade on
RECURSIVE equityFrom(_, _, _)
equityFrom(sortedTrades, i, runningEquity) ==
    IF i > Len(sortedTrades) THEN <<>>
    ELSE LET trade == sortedTrades[i]
             equity == runningEquity + profitLossOrZero(trade)
         IN  <<[date |-> trade.exitDate, equity |-> equity, tradeId |-> trade.id,
                symbol |-> trade.symbol, pl |-> profitLossOrZero(trade)]>>
             \o equityFrom(sortedTrades, i + 1, equity)

\* An equity curve in the order of the array, not of the exit dates; C18 must
\* tell it from getEquityCurveData.
getEquityCurveDataUnsorted(ts, initialCapital, now) ==
    LET closedTrades == SelectSeq(ts, isClosed)
    IN  IF Len(closedTrades) = 0 THEN <<[date |-> now, equity |-> initialCapital]>>
        ELSE equityFrom(closedTrades, 1, initialCapital)

getEquityCurveData(ts, initialCapital, now) ==
    LET closedTrades == SelectSeq(ts, isClosed)
    IN  IF Len(closedTrades) = 0 THEN <<[date |-> now, equity |-> initialCapital]>>
        ELSE equityFrom(sortByExitDate(closedTrades, FALSE), 1, initialCapital)

\* Dates are day numbers, day 0 a Sunday: new Date(d).getDay()
getDay(date) == date % 7

dayNames ==
    <<"Sunday", "Monday", "Tuesday", "Wednesday", "Thursday", "Friday", "Saturday">>

\* Object.keys(dayOfWeekCounts).reduce((a, b) => counts[a] > counts[b] ? a : b)
\* from key b on, a being the accumulator
RECURSIVE mostActiveFrom(_, _, _)
mostActiveFrom(dayOfWeekCounts, a, b) ==
    IF b > 6 THEN a
    ELSE mostActiveFrom(dayOfWeekCounts,
                        IF dayOfWeekCounts[a] > dayOfWeekCounts[b] THEN a ELSE b, b + 1)

\* the same with counts[a] < counts[b]
RECURSIVE leastActiveFrom(_, _, _)
leastActiveFrom(dayOfWeekCounts, a, b) ==
    IF b > 6 THEN a
    ELSE leastActiveFrom(dayOfWeekCounts,
                         IF dayOfWeekCounts[a] < dayOfWeekCounts[b] THEN a ELSE b, b + 1)

\* ts.sort((a, b) => new Date(a.entryDate) - new Date(b.entryDate)), stable
RECURSIVE sortByEntryDate(_)
sortByEntryDate(ts) ==
    IF ts = <<>> THEN <<>>
    ELSE LET sorted == sortByEntryDate(SubSeq(ts, 1, Len(ts) - 1))
             trade == ts[Len(ts)]
             before == SelectSeq(sorted, LAMBDA t : t.entryDate <= trade.entryDate)
             after == SelectSeq(sorted, LAMBDA t : t.entryDate > trade.entryDate)
         IN  before \o <<trade>> \o after

\* getTradeFrequencyAnalysis: daysDiff is in days, a week is 7 of them and a
\* month 30.44
getTradeFrequencyAnalysis(ts) ==
    LET closedTrades == SelectSeq(ts, isClosed)
        sortedTrades == sortByEntryDate(closedTrades)
        daysDiff == sortedTrades[Len(sortedTrades)].entryDate - sortedTrades[1].entryDate
        dayOfWeekCounts ==
            [d \in 0 .. 6 |->
                Len(SelectSeq(sortedTrades, LAMBDA t : getDay(t.entryDate) = d))]
        mostActiveDayIndex == mostActiveFrom(dayOfWeekCounts, 0, 1)
        leastActiveDayIndex == leastActiveFrom(dayOfWeekCounts, 0, 1)
        uniqueTradingDays ==
            Cardinality({sortedTrades[i].entryDate : i \in 1 .. Len(sortedTrades)})
    IN  IF Len(closedTrades) = 0
        THEN [averageTradesPerWeek |-> Zero, averageTradesPerMonth |-> Zero,
              mostActiveDay |-> "null", leastActiveDay |-> "null",
              tradingDaysPerWeek |-> Zero]
        ELSE [averageTradesPerWeek |->
                  IF daysDiff > 0 THEN Div(Len(closedTrades) * 7, daysDiff) ELSE Zero,
              averageTradesPerMonth |->
                  IF daysDiff > 0 THEN Div(Len(closedTrades) * 3044, daysDiff * 100)
                  ELSE Zero,
              mostActiveDay |-> dayNames[mostActiveDayIndex + 1],
              leastActiveDay |-> dayNames[leastActiveDayIndex + 1],
              tradingDaysPerWeek |->
                  IF daysDiff > 0 THEN Div(uniqueTradingDays * 7, daysDiff) ELSE Zero,
              dayOfWeekDistribution |->
                  [i \in 1 .. 7 |->
                      [day |-> dayNames[i], count |-> dayOfWeekCounts[i - 1],
                       percentage |-> Div(dayOfWeekCounts[i - 1] * 100,
                                          Len(closedTrades))]]]

\* trade.positionSize || 0
positionSizeOrZero(trade) == IF TruthyNum(trade, "positionSize") THEN trade.positionSize ELSE 0

\* reduce((sum, size) => sum + size, 0) of the position sizes
RECURSIVE sumPositionSizes(_)
sumPositionSizes(ts) ==
    IF ts = <<>> THEN 0 ELSE positionSizeOrZero(ts[1]) + sumPositionSizes(Tail(ts))

\* reduce((sum, size) => sum + Math.pow(size - avg, 2), 0), avg being
\* total / n: the sum of (n * size - total)^2, to be divided by n^2
RECURSIVE sumSquaredDeviations(_, _, _)
sumSquaredDeviations(ts, total, n) ==
    IF ts = <<>> THEN 0
    ELSE (n * positionSizeOrZero(ts[1]) - total) * (n * positionSizeOrZero(ts[1]) - total)
         + sumSquaredDeviations(Tail(ts), total, n)

\* getPositionSizingAnalysis; thisSettings is this.settings.  The variance is
\* returned in place of its square root positionSizeStdDev and of the
\* consistencyScore computed from it.  `x || 0` turns NaN and 0 into 0 and
\* leaves Infinity.
getPositionSizingAnalysis(ts, thisSettings) ==
    LET closedTrades == SelectSeq(ts, isClosed)
        n == Len(closedTrades)
        total == sumPositionSizes(closedTrades)
        avgPositionSize == Div(total, n)
        variance == Div(sumSquaredDeviations(closedTrades, total, n), n * n * n)
        quotient == Div(thisSettings.accountSize * thisSettings.riskPerTrade
                            * avgPositionSize.den,
                        100 * avgPositionSize.num)
    IN  IF n = 0
        THEN [averagePositionSize |-> Zero, positionSizeVariance |-> Zero,
              recommendedPositionSize |-> Zero]
        ELSE [averagePositionSize |-> avgPositionSize,
              positionSizeVariance |-> variance,
              recommendedPositionSize |-> IF quotient.num = 0 THEN Zero ELSE quotient,
              positionSizes |-> [i \in 1 .. n |-> positionSizeOrZero(closedTrades[i])]]

(***************************************************************************)
(* The inputs of the calls.                                                *)
(***************************************************************************)
NoKeys == [k \in {} |-> 0]

\* the required fields of a trade: long and closed with a commission, short
\* and still open
CoreInputs ==
    { [assetType |-> "stocks", symbol |-> "AAPL", direction |-> "long", status |-> "closed",
       positionSize |-> 10, entryPrice |-> 100, entryDate |-> 1, exitPrice |-> 110,
       exitDate |-> 2, commission |-> 5],
      [assetType |-> "forex", symbol |-> "EUR/USD", direction |-> "short", status |-> "open",
       positionSize |-> 10, entryPrice |-> 100, entryDate |-> 2] }

\* the risk fields: a stop below and a target above the entry (the right
\* sides for a long, the wrong ones for a short) with an account that covers
\* the position; a far stop with an account smaller than the long's risk and
\* than the position's value
NearStop == [stopLoss |-> 95, takeProfit |-> 120, accountSize |-> 2000]

FarStop == [stopLoss |-> 40, accountSize |-> 500]

\* a stop alone: the account size left blank in the form
StopOnly == [stopLoss |-> 95]

\* what a caller may supply besides the fields of the form: an id, derived
\* fields
SuppliedId == [id |-> 1]

SuppliedDerived ==
    [profitLoss |-> 7, profitLossPercent |-> Div(1, 3), riskAmount |-> 1000,
     rewardAmount |-> 1, riskRewardRatio |-> Div(5, 2), riskPercent |-> Div(1, 7)]

LongCore == CHOOSE c \in CoreInputs : c.direction = "long"

ShortCore == CHOOSE c \in CoreInputs : c.direction = "short"

\* inputs that break one rule (no asset type) and several (a blank symbol, a
\* position size of 0, an exit before the entry)
InvalidInputs ==
    { [symbol |-> "AAPL", direction |-> "long", status |-> "open", positionSize |-> 10,
       entryPrice |-> 100, entryDate |-> 1],
      [assetType |-> "stocks", symbol |-> " ", direction |-> "long", status |-> "closed",
       positionSize |-> 0, entryPrice |-> 100, entryDate |-> 2, exitPrice |-> 110,
       exitDate |-> 1] }

\* the objects given to addTrade: the form's fields alone, then with derived
\* fields or an id supplied, then the invalid ones
TradeInputs ==
    { Merge(LongCore, NearStop), Merge(LongCore, FarStop), Merge(ShortCore, NearStop),
      ShortCore, Merge(LongCore, StopOnly) }
    \cup { Merge(Merge(LongCore, NearStop), SuppliedDerived),
           Merge(Merge(LongCore, FarStop), SuppliedDerived),
           Merge(Merge(LongCore, NearStop), SuppliedId) }
    \cup InvalidInputs

\* the objects the form gives: its fields alone
FormInputs ==
    { Merge(LongCore, NearStop), Merge(LongCore, FarStop), Merge(ShortCore, NearStop),
      ShortCore }
    \cup InvalidInputs

\* the updates of a call: none, an id, a far stop with a small account,
\* a position size of 0
UpdateInputs ==
    { NoKeys,
      SuppliedId,
      FarStop,
      [positionSize |-> 0] }

IdInputs == 1 .. MaxId

\* the instants new Date() reads
Times == {1}

\* the lines of an imported file: a row of a file that has the derived
\* columns besides the source columns; a row whose symbol and position size
\* cells are empty; a blank line
ValidRow ==
    [kind |-> "row",
     cells |-> [assetType |-> "forex", symbol |-> "EUR/USD", direction |-> "short",
                status |-> "closed", positionSize |-> 10, entryPrice |-> 100,
                entryDate |-> 1, exitPrice |-> 104, exitDate |-> 1, commission |-> 7,
                profitLoss |-> 7, profitLossPercent |-> Div(1, 3), riskAmount |-> 1,
                rewardAmount |-> 1, riskRewardRatio |-> Div(5, 2), riskPercent |-> Div(1, 7)],
     blank |-> {"stopLoss", "takeProfit"}]

InvalidRow ==
    [kind |-> "row",
     cells |-> [assetType |-> "stocks", direction |-> "long", status |-> "open",
                entryPrice |-> 100, entryDate |-> 1],
     blank |-> {"symbol", "positionSize", "exitPrice"}]

BlankLine == [kind |-> "blank"]

\* the files: up to MaxLines rows, ended by a line break (so by a last, blank
\* line) or not
CsvInputs ==
    LET rows == UNION { [1 .. n -> {ValidRow, InvalidRow}] : n \in 0 .. MaxLines }
    IN  rows \cup { Append(r, BlankLine) : r \in rows }

(***************************************************************************)
(* The store as a state machine: one action per operation.                 *)
(***************************************************************************)
\* what a call leaves to its caller: the result without the persisted array
Outcome(r) == [k \in (DOMAIN r) \ {"store"} |-> r[k]]

\* getDefaultSettings(), the two settings the calculations read
DefaultSettings == [accountSize |-> 10000, riskPerTrade |-> 2]

\* First load: initializeStorage saves an empty array and the default
\* settings, then the TradeCalculator is constructed and loads them.
Init ==
    /\ trades = <<>>
    /\ nextId = 1
    /\ last = [op |-> "constructor"]
    /\ settings = DefaultSettings
    /\ calculator = DefaultSettings

\* In every action storageOk is whether localStorage.setItem succeeds; a call
\* that throws before it saves does not depend on it.
AddTrade ==
    \E tradeData \in TradeInputs, now \in Times, storageOk \in BOOLEAN :
        \E r \in {addTrade(trades, tradeData, nextId, now, storageOk)} :
            /\ r.outcome = "return" => (Len(trades) < MaxTrades /\ nextId <= MaxId)
            /\ trades' = r.store
            /\ nextId' = IF r.outcome = "return" THEN nextId + 1 ELSE nextId
            /\ last' = [op |-> "addTrade", tradeData |-> tradeData, res |-> Outcome(r)]
            /\ UNCHANGED <<settings, calculator>>

HandleFormSubmit ==
    \E formData \in FormInputs, now \in Times, storageOk \in BOOLEAN :
        \E r \in {handleFormSubmit(trades, formData, nextId, now, storageOk)} :
            /\ r.outcome = "return" => (Len(trades) < MaxTrades /\ nextId <= MaxId)
            /\ trades' = r.store
            /\ nextId' = IF r.outcome = "return" THEN nextId + 1 ELSE nextId
            /\ last' = [op |-> "handleFormSubmit", formData |-> formData, res |-> Outcome(r)]
            /\ UNCHANGED <<settings, calculator>>

UpdateTrade ==
    \E tradeId \in IdInputs, updates \in UpdateInputs, now \in Times, storageOk \in BOOLEAN :
        \E r \in {updateTrade(trades, tradeId, updates, now, storageOk)} :
            /\ trades' = r.store
            /\ last' = [op |-> "updateTrade", tradeId |-> tradeId, updates |-> updates,
                        res |-> Outcome(r)]
            /\ UNCHANGED <<nextId, settings, calculator>>

DeleteTrade ==
    \E tradeId \in IdInputs, storageOk \in BOOLEAN :
        \E r \in {deleteTrade(trades, tradeId, storageOk)} :
            /\ trades' = r.store
            /\ last' = [op |-> "deleteTrade", tradeId |-> tradeId, res |-> Outcome(r)]
            /\ UNCHANGED <<nextId, settings, calculator>>

GetTrade ==
    \E tradeId \in IdInputs :
        \E r \in {getTrade(trades, tradeId)} :
            /\ last' = [op |-> "getTrade", tradeId |-> tradeId, res |-> Outcome(r)]
            /\ UNCHANGED <<trades, nextId, settings, calculator>>

ImportFromCSV ==
    \E lines \in CsvInputs, now \in Times, storageOk \in BOOLEAN :
        \E r \in {importFromCSV(trades, lines, nextId, now, storageOk)} :
            /\ nextId + r.idsUsed <= MaxId + 1
            /\ r.outcome = "return" => Len(trades) + r.ret <= MaxTrades
            /\ trades' = r.store
            /\ nextId' = nextId + r.idsUsed
            /\ last' = [op |-> "importFromCSV", lines |-> lines, res |-> Outcome(r)]
            /\ UNCHANGED <<settings, calculator>>

Next == AddTrade \/ HandleFormSubmit \/ UpdateTrade \/ DeleteTrade \/ GetTrade \/ ImportFromCSV

Spec == Init /\ [][Next]_vars

(***************************************************************************)
(* The calculators as pure functions: each step hands one trade to one     *)
(* calculator and records the call.  Amounts of money and prices are in    *)
(* thousandths (150.25 is 150250), position sizes are plain counts.        *)
(***************************************************************************)
\* entryPrice, exitPrice and positionSize of the probes; the first two are the
\* examples 150.25 -> 155.50 x 100 and 1.085 -> 1.089 x 10000
PriceInputs ==
    { [entryPrice |-> 150250, exitPrice |-> 155500, positionSize |-> 100],
      [entryPrice |-> 1085, exitPrice |-> 1089, positionSize |-> 10000],
      [entryPrice |-> 100, exitPrice |-> 100, positionSize |-> 1],
      [entryPrice |-> 100, exitPrice |-> 0, positionSize |-> 10],
      [entryPrice |-> 100, positionSize |-> 10],
      [entryPrice |-> 100, exitPrice |-> 110, positionSize |-> 0] }

\* commission absent, 0, 5.00 and 7.00
CommissionInputs == {NoKeys, [commission |-> 0], [commission |-> 5000], [commission |-> 7000]}

CalcInputs ==
    { Merge(Merge(p, c), [direction |-> d, status |-> s]) :
        p \in PriceInputs, c \in CommissionInputs,
        d \in {"long", "short"}, s \in {"closed", "open", "cancelled"} }

CalculateProfitLoss ==
    \E trade \in CalcInputs :
        /\ last' = [op |-> "calculateProfitLoss", trade |-> trade,
                    ret |-> calculateProfitLoss(trade)]
        /\ UNCHANGED <<trades, nextId, settings, calculator>>

TradeCalculatorCalculateProfitLoss ==
    \E trade \in CalcInputs :
        /\ last' = [op |-> "TradeCalculator.calculateProfitLoss", trade |-> trade,
                    ret |-> TradeCalculator_calculateProfitLoss(trade)]
        /\ UNCHANGED <<trades, nextId, settings, calculator>>

CalculateProfitLossPercent ==
    \E trade \in CalcInputs :
        /\ last' = [op |-> "calculateProfitLossPercent", trade |-> trade,
                    ret |-> calculateProfitLossPercent(trade)]
        /\ UNCHANGED <<trades, nextId, settings, calculator>>

TradeCalculatorCalculateProfitLossPercent ==
    \E trade \in CalcInputs :
        /\ last' = [op |-> "TradeCalculator.calculateProfitLossPercent", trade |-> trade,
                    ret |-> TradeCalculator_calculateProfitLossPercent(trade)]
        /\ UNCHANGED <<trades, nextId, settings, calculator>>

\* entryPrice, stopLoss, takeProfit and positionSize of the probes: the
\* example 150.25, 148.00, 155.00 x 100; no stop; no target; neither; a stop
\* at the entry; a stop of 0; stop and target exchanged
StopInputs ==
    { [entryPrice |-> 150250, stopLoss |-> 148000, takeProfit |-> 155000, positionSize |-> 100],
      [entryPrice |-> 150250, takeProfit |-> 155000, positionSize |-> 100],
      [entryPrice |-> 150250, stopLoss |-> 148000, positionSize |-> 100],
      [entryPrice |-> 150250, positionSize |-> 100],
      [entryPrice |-> 150250, stopLoss |-> 150250, takeProfit |-> 155000, positionSize |-> 100],
      [entryPrice |-> 150250, stopLoss |-> 0, takeProfit |-> 155000, positionSize |-> 100],
      [entryPrice |-> 150250, stopLoss |-> 155000, takeProfit |-> 148000, positionSize |-> 100] }

RiskInputs ==
    { Merge(p, [direction |-> d, status |-> s]) :
        p \in StopInputs, d \in {"long", "short"}, s \in {"closed", "open"} }

CalculateRiskAmount ==
    \E trade \in RiskInputs :
        /\ last' = [op |-> "calculateRiskAmount", trade |-> trade,
                    ret |-> calculateRiskAmount(trade)]
        /\ UNCHANGED <<trades, nextId, settings, calculator>>

CalculateRewardAmount ==
    \E trade \in RiskInputs :
        /\ last' = [op |-> "calculateRewardAmount", trade |-> trade,
                    ret |-> calculateRewardAmount(trade)]
        /\ UNCHANGED <<trades, nextId, settings, calculator>>

CalculateRiskRewardRatio ==
    \E trade \in RiskInputs :
        /\ last' = [op |-> "calculateRiskRewardRatio", trade |-> trade,
                    ret |-> calculateRiskRewardRatio(trade)]
        /\ UNCHANGED <<trades, nextId, settings, calculator>>

NextCalc ==
    \/ CalculateProfitLoss
    \/ TradeCalculatorCalculateProfitLoss
    \/ CalculateProfitLossPercent
    \/ TradeCalculatorCalculateProfitLossPercent
    \/ CalculateRiskAmount
    \/ CalculateRewardAmount
    \/ CalculateRiskRewardRatio

SpecCalc == Init /\ [][NextCalc]_vars

C11_NoProfitLossUnlessClosed ==
    /\ last.op \in {"calculateProfitLoss", "TradeCalculator.calculateProfitLoss"}
       => ((last.trade.status \in {"open", "cancelled"} \/ ~Has(last.trade, "exitPrice"))
           => last.ret = 0)
    /\ last.op \in {"calculateProfitLossPercent", "TradeCalculator.calculateProfitLossPercent"}
       => ((last.trade.status \in {"open", "cancelled"} \/ ~Has(last.trade, "exitPrice"))
           => last.ret = Zero)

\* the distance from the entry to price `k` in the direction of the loss
\* (sign 1) or of the profit (sign -1), times the position size; 0 when the
\* trade has no such price (a price of 0 is none)
DirectedAmount(t, k, sign) ==
    IF ~Has(t, k) \/ t[k] = 0 THEN 0
    ELSE IF t.direction = "long" THEN sign * (t.entryPrice - t[k]) * t.positionSize
    ELSE sign * (t[k] - t.entryPrice) * t.positionSize

\* C12: riskAmount is the directional distance from entryPrice to stopLoss
\* times positionSize (0 without a stopLoss), rewardAmount the directional
\* distance from entryPrice to takeProfit times positionSize (0 without a
\* takeProfit), riskRewardRatio is rewardAmount / riskAmount, or 0 when
\* riskAmount is 0; the long 150.25, stop 148.00, target 155.00, size 100
\* has risk 225.00, reward 475.00 and ratio 19/9 = 2.111...
C12_RiskRewardOfTrade ==
    LET example == [direction |-> "long", entryPrice |-> 150250, stopLoss |-> 148000,
                    takeProfit |-> 155000, positionSize |-> 100]
        isExample == \A k \in DOMAIN example :
                         Has(last.trade, k) /\ last.trade[k] = example[k]
    IN  /\ last.op = "calculateRiskAmount"
           => /\ last.ret = DirectedAmount(last.trade, "stopLoss", 1)
              /\ isExample => last.ret = 225000
        /\ last.op = "calculateRewardAmount"
           => /\ last.ret = DirectedAmount(last.trade, "takeProfit", -1)
              /\ isExample => last.ret = 475000
        /\ last.op = "calculateRiskRewardRatio"
           => LET risk == DirectedAmount(last.trade, "stopLoss", 1)
                  reward == DirectedAmount(last.trade, "takeProfit", -1)
              IN  /\ risk = 0 => last.ret = Zero
                  /\ risk # 0 => last.ret = Div(reward, risk)
                  /\ isExample => /\ last.ret = [num |-> 19, den |-> 9]
                                  /\ (last.ret.num * 1000) \div last.ret.den = 2111

\* C12's case: the ratio of the example.
C12_Witness ==
    /\ last.op = "calculateRiskRewardRatio"
    /\ last.trade = [direction |-> "long", status |-> "closed", entryPrice |-> 150250,
                     stopLoss |-> 148000, takeProfit |-> 155000, positionSize |-> 100]
    /\ last.ret = [num |-> 19, den |-> 9]

(***************************************************************************)
(* Claims about the store.                                                 *)
(***************************************************************************)
DerivedFields ==
    {"profitLoss", "profitLossPercent", "riskAmount", "rewardAmount", "riskRewardRatio",
     "riskPercent"}

\* the six derived fields of `trade` are the calculators' values for `source`
DerivedFrom(trade, source) ==
    /\ DerivedFields \subseteq DOMAIN trade
    /\ trade.profitLoss = calculateProfitLoss(source)
    /\ trade.profitLossPercent = calculateProfitLossPercent(source)
    /\ trade.riskAmount = calculateRiskAmount(source)
    /\ trade.rewardAmount = calculateRewardAmount(source)
    /\ trade.riskRewardRatio = calculateRiskRewardRatio(source)
    /\ trade.riskPercent = calculateRiskPercent(source)

Returned(op) == last.op = op /\ last.res.outcome = "return"

Threw(op) == last.op = op /\ last.res.outcome = "throw"

\* C1: every persisted trade's six derived fields are the values the
\* calculators return for the record's current source fields (no persisted
\* record carries a stale or an externally supplied derived value).
C1_PersistedDerivedFieldsAreFresh ==
    \A i \in 1 .. Len(trades) : DerivedFrom(trades[i], trades[i])

\* C2: addTrade and updateTrade recompute the six derived fields from the
\* merged record before saving: the merged record carries the supplied data,
\* the trade returned is the merged record with each derived field replaced by
\* its calculator's value for the merged record, whatever derived values the
\* caller supplied, and that trade is the one persisted.
C2_WritesRecomputeDerivedFields ==
    /\ Returned("addTrade") =>
          LET merged == last.res.merged
              ret == last.res.ret
          IN  /\ \A k \in (DOMAIN last.tradeData) \ {"createdAt", "updatedAt"} :
                     merged[k] = last.tradeData[k]
              /\ DerivedFrom(ret, merged)
              /\ \A k \in (DOMAIN merged) \ DerivedFields : ret[k] = merged[k]
              /\ DOMAIN ret = (DOMAIN merged) \cup DerivedFields
              /\ last.res.saved => trades[Len(trades)] = ret
    /\ Returned("updateTrade") =>
          LET merged == last.res.merged
              ret == last.res.ret
          IN  /\ \A k \in (DOMAIN last.updates) \ {"updatedAt"} : merged[k] = last.updates[k]
              /\ DerivedFrom(ret, merged)
              /\ \A k \in (DOMAIN merged) \ DerivedFields : ret[k] = merged[k]
              /\ DOMAIN ret = (DOMAIN merged) \cup DerivedFields
              /\ last.res.saved => trades[last.res.index] = ret

\* C2's case: addTrade was given derived values that are not the calculators',
\* returned, and the trade was persisted after an earlier one.
C2_Witness ==
    /\ Returned("addTrade")
    /\ last.res.saved
    /\ Len(trades) = 2
    /\ Has(last.tradeData, "profitLoss")
    /\ last.tradeData.profitLoss # last.res.ret.profitLoss
    /\ last.tradeData.riskRewardRatio # last.res.ret.riskRewardRatio
    /\ trades[2].profitLoss = 95

\* C4: a failing write leaves the persisted collection as it was.  addTrade
\* and updateTrade whose (merged) record fails validation throw the joined
\* messages; updateTrade, deleteTrade and getTrade with an id absent from the
\* collection throw "Trade not found"; a call that throws adds, changes,
\* removes and reorders nothing.
C4_FailingWriteLeavesStore ==
    [][ /\ (last'.op \in {"addTrade", "updateTrade", "deleteTrade", "getTrade"}
              /\ last'.res.outcome = "throw")
           => trades' = trades
        /\ (last'.op = "addTrade" /\ validateTrade(last'.tradeData) # <<>>)
           => /\ last'.res.outcome = "throw"
              /\ last'.res.err = join(validateTrade(last'.tradeData), ", ")
        /\ (last'.op \in {"updateTrade", "deleteTrade", "getTrade"}
              /\ \A i \in 1 .. Len(trades) : trades[i].id # last'.tradeId)
           => /\ last'.res.outcome = "throw"
              /\ last'.res.err = "Trade not found"
        /\ (last'.op = "updateTrade"
              /\ \E i \in 1 .. Len(trades) : trades[i].id = last'.tradeId)
           => LET i == CHOOSE j \in 1 .. Len(trades) :
                           /\ trades[j].id = last'.tradeId
                           /\ \A h \in 1 .. (j - 1) : trades[h].id # last'.tradeId
                  errors == validateTrade(Merge(trades[i], last'.updates))
              IN  errors # <<>>
                  => /\ last'.res.outcome = "throw"
                     /\ last'.res.err = join(errors, ", ")
      ]_vars

\* C4's case: a non-empty store and an addTrade that threw three joined
\* messages.
C4_Witness ==
    /\ Len(trades) > 0
    /\ Threw("addTrade")
    /\ last.res.err = "Symbol is required, Position size must be greater than 0, Exit date cannot be before entry date"

\* C5: importFromCSV is all-or-nothing.  If a parsed row fails validation the
\* call throws an error that lists each failing row with its messages and the
\* persisted collection is unchanged; otherwise all parsed rows are appended
\* after the existing trades and the count returned is the number of rows
\* appended.
C5_ImportAllOrNothing ==
    [][ last'.op = "importFromCSV" =>
          \E now \in Times :
              LET parsed == parsedTrades(last'.lines, nextId, now)
                  rowErrors == rowErrorsFrom(parsed, 1)
              IN  IF rowErrors # <<>>
                  THEN /\ last'.res.outcome = "throw"
                       /\ last'.res.err = "Validation errors: " \o join(rowErrors, "; ")
                       /\ trades' = trades
                  ELSE /\ trades' = trades \o parsed
                       /\ last'.res.outcome = "return"
                          => last'.res.ret = Len(trades') - Len(trades)
      ]_vars

\* C6: the ids of the persisted trades are pairwise distinct.
C6_IdsPairwiseDistinct ==
    \A i, j \in 1 .. Len(trades) : i # j => trades[i].id # trades[j].id

\* C7: updateTrade(tradeId, updates) never changes the id of the trade it
\* updates: after a call that returned, the record at the same position has
\* id = tradeId and getTrade(tradeId) returns it, and the number and order of
\* the persisted trades and the ids of the others are unchanged.
C7_UpdateKeepsId ==
    [][ (last'.op = "updateTrade" /\ last'.res.outcome = "return") =>
          LET index == last'.res.index
          IN  /\ Len(trades') = Len(trades)
              /\ trades[index].id = last'.tradeId
              /\ trades'[index].id = last'.tradeId
              /\ getTrade(trades', last'.tradeId).outcome = "return"
              /\ getTrade(trades', last'.tradeId).ret = trades'[index]
              /\ \A i \in (1 .. Len(trades)) \ {index} : trades'[i] = trades[i]
      ]_vars

\* C8: no trade whose computed riskAmount exceeds its supplied accountSize is
\* persisted: addTrade and updateTrade throw, and leave the store as it was,
\* when the riskAmount computed from the record being written is greater than
\* its accountSize, and accept the write when it is not and no other rule is
\* violated.
C8_RiskWithinAccountSize ==
    [][ \A op \in {"addTrade", "updateTrade"} :
          last'.op = op =>
              LET written == IF op = "addTrade" THEN last'.tradeData
                             ELSE IF findIndex(trades, last'.tradeId) = 0 THEN NoKeys
                             ELSE Merge(trades[findIndex(trades, last'.tradeId)], last'.updates)
                  found == op = "addTrade" \/ findIndex(trades, last'.tradeId) # 0
                  exceeds == /\ TruthyNum(written, "accountSize")
                             /\ calculateRiskAmount(written) > written.accountSize
                  otherRules == validateTrade([k \in (DOMAIN written) \ {"riskAmount"} |->
                                                  written[k]])
              IN  found =>
                    IF exceeds
                    THEN last'.res.outcome = "throw" /\ trades' = trades
                    ELSE otherRules = <<>> => last'.res.outcome = "return"
      ]_vars

\* C9: the validation of every create, update and import rejects the write
\* when stopLoss is present and not on the loss side of entryPrice, when
\* takeProfit is present and not on the profit side, and when accountSize is
\* supplied and positionSize x entryPrice exceeds it: every record a call that
\* returned has written obeys the three rules.
ObeysSideAndSizeRules(trade) ==
    /\ TruthyNum(trade, "stopLoss")
       => (IF directionOf(trade) = "long" THEN trade.stopLoss < trade.entryPrice
           ELSE trade.stopLoss > trade.entryPrice)
    /\ TruthyNum(trade, "takeProfit")
       => (IF directionOf(trade) = "long" THEN trade.takeProfit > trade.entryPrice
           ELSE trade.takeProfit < trade.entryPrice)
    /\ TruthyNum(trade, "accountSize")
       => trade.positionSize * trade.entryPrice <= trade.accountSize

C9_ValidationRejectsWrongSides ==
    /\ (Returned("addTrade") \/ Returned("updateTrade")) => ObeysSideAndSizeRules(last.res.ret)
    /\ Returned("importFromCSV")
       => \A i \in 1 .. Len(last.res.parsed) : ObeysSideAndSizeRules(last.res.parsed[i])

(***************************************************************************)
(* The summaries as pure functions: each step hands one collection to one  *)
(* summary and records the call.                                           *)
(***************************************************************************)
\* a closed short that lost: (100 - 104) x 10 - 7 = -47
ClosedShort ==
    [assetType |-> "forex", symbol |-> "EUR/USD", direction |-> "short", status |-> "closed",
     positionSize |-> 10, entryPrice |-> 100, entryDate |-> 1, exitPrice |-> 104,
     exitDate |-> 1, commission |-> 7]

\* the source fields of the trades of a collection: a closed winner, a closed
\* loser and an open trade
AggSources ==
    { Merge(Merge(LongCore, NearStop), [id |-> 1]),
      Merge(ClosedShort, [id |-> 2]),
      Merge(ShortCore, [id |-> 3]) }

\* each with the derived fields the calculators give, and with other ones
AggTrades ==
    {recalculate(t) : t \in AggSources}
        \cup {Merge(recalculate(t), SuppliedDerived) : t \in AggSources}

AggInputs == UNION {[1 .. n -> AggTrades] : n \in 0 .. MaxAgg}

AggOps ==
    {"getPerformanceSummary", "calculateWinRate", "calculateProfitFactor",
     "calculateMaxDrawdown", "getEquityCurveData"}

\* the result of summary `op` for collection `ts`
Aggregate(op, ts, now) ==
    CASE op = "getPerformanceSummary" -> getPerformanceSummary(ts)
      [] op = "calculateWinRate" -> calculateWinRate(ts)
      [] op = "calculateProfitFactor" -> calculateProfitFactor(ts)
      [] op = "calculateMaxDrawdown" -> TradeCalculator_calculateMaxDrawdown(ts)
      [] op = "getEquityCurveData" -> getEquityCurveData(ts, DefaultInitialCapital, now)

GetPerformanceSummary ==
    \E ts \in AggInputs, now \in Times :
        /\ last' = [op |-> "getPerformanceSummary", trades |-> ts, now |-> now,
                    ret |-> Aggregate("getPerformanceSummary", ts, now)]
        /\ UNCHANGED <<trades, nextId, settings, calculator>>

CalculateWinRate ==
    \E ts \in AggInputs, now \in Times :
        /\ last' = [op |-> "calculateWinRate", trades |-> ts, now |-> now,
                    ret |-> Aggregate("calculateWinRate", ts, now)]
        /\ UNCHANGED <<trades, nextId, settings, calculator>>

CalculateProfitFactor ==
    \E ts \in AggInputs, now \in Times :
        /\ last' = [op |-> "calculateProfitFactor", trades |-> ts, now |-> now,
                    ret |-> Aggregate("calculateProfitFactor", ts, now)]
        /\ UNCHANGED <<trades, nextId, settings, calculator>>

CalculateMaxDrawdown ==
    \E ts \in AggInputs, now \in Times :
        /\ last' = [op |-> "calculateMaxDrawdown", trades |-> ts, now |-> now,
                    ret |-> Aggregate("calculateMaxDrawdown", ts, now)]
        /\ UNCHANGED <<trades, nextId, settings, calculator>>

GetEquityCurveData ==
    \E ts \in AggInputs, now \in Times :
        /\ last' = [op |-> "getEquityCurveData", trades |-> ts, now |-> now,
                    ret |-> Aggregate("getEquityCurveData", ts, now)]
        /\ UNCHANGED <<trades, nextId, settings, calculator>>

NextAgg ==
    \/ GetPerformanceSummary
    \/ CalculateWinRate
    \/ CalculateProfitFactor
    \/ CalculateMaxDrawdown
    \/ GetEquityCurveData

SpecAgg == Init /\ [][NextAgg]_vars

\* two collections with the same trades but for the stored derived fields
SameSourceFields(a, b) ==
    /\ Len(a) = Len(b)
    /\ \A i \in 1 .. Len(a) :
          /\ DOMAIN a[i] = DOMAIN b[i]
          /\ \A k \in (DOMAIN a[i]) \ DerivedFields : a[i][k] = b[i][k]

\* C3: the summaries never read a stored derived field: whatever a summary
\* returned for a collection, it returns for every collection that agrees
\* with it on the source fields and differs only in the stored profitLoss,
\* profitLossPercent, riskAmount, rewardAmount, riskRewardRatio, riskPercent.
C3_SummariesIgnoreStoredDerived ==
    last.op \in AggOps =>
        \A other \in AggInputs :
            SameSourceFields(other, last.trades)
                => Aggregate(last.op, other, last.now) = last.ret

(***************************************************************************)
(* The settings: the settings page saves them, the TradeCalculator reads   *)
(* them once, when the page's scripts load.                                *)
(***************************************************************************)
\* validateSettings of the settings page: an account size of 0 is falsy and
\* passes
validateSettings(formData) ==
    msgIf(formData.accountSize # 0 /\ formData.accountSize <= 0,
          "Account size must be greater than 0")
    \o msgIf(formData.riskPerTrade # 0
              /\ (formData.riskPerTrade <= 0 \/ formData.riskPerTrade > 100),
              "Risk per trade must be between 0.1% and 100%")

\* TradeDataManager.saveSettings: what localStorage holds afterwards
saveSettings(newSettings, stored, storageOk) == IF storageOk THEN newSettings ELSE stored

\* the settings form: a larger account, an account of 0, a negative one
SettingsInputs ==
    { [accountSize |-> a, riskPerTrade |-> 2] : a \in {25000, 0, -5} }

\* the trades whose risk percent the calculator is asked for: the account
\* size blank, given, and 0, with a stop and without
RiskPercentInputs ==
    { Merge(LongCore, StopOnly), Merge(LongCore, NearStop),
      Merge(LongCore, [stopLoss |-> 95, accountSize |-> 0]),
      Merge(LongCore, [accountSize |-> 0]) }

\* saveSettings() of the settings page
SaveSettings ==
    \E formData \in SettingsInputs, storageOk \in BOOLEAN :
        LET validationErrors == validateSettings(formData)
        IN  /\ settings' = IF Len(validationErrors) > 0 THEN settings
                            ELSE saveSettings(formData, settings, storageOk)
            /\ last' = [op |-> "saveSettings", formData |-> formData,
                        errors |-> validationErrors]
            /\ UNCHANGED <<trades, nextId, calculator>>

\* a page is loaded: calculations.js constructs the TradeCalculator, which
\* loads the saved settings
NewTradeCalculator ==
    /\ calculator' = settings
    /\ last' = [op |-> "new TradeCalculator"]
    /\ UNCHANGED <<trades, nextId, settings>>

TradeCalculatorCalculateRiskPercent ==
    \E trade \in RiskPercentInputs :
        /\ last' = [op |-> "TradeCalculator.calculateRiskPercent", trade |-> trade,
                    ret |-> TradeCalculator_calculateRiskPercent(trade, calculator)]
        /\ UNCHANGED <<trades, nextId, settings, calculator>>

NextSettings ==
    \/ AddTrade
    \/ UpdateTrade
    \/ SaveSettings
    \/ NewTradeCalculator
    \/ TradeCalculatorCalculateRiskPercent

SpecSettings == Init /\ [][NextSettings]_vars

\* the risk as a percentage of the account size of the saved settings
PercentOfSavedAccount(riskAmount) ==
    IF settings.accountSize = 0 THEN Zero ELSE Div(riskAmount * 100, settings.accountSize)

\* C13: for a trade whose accountSize is absent or zero, the riskPercent that
\* addTrade and updateTrade store, and the one that
\* TradeCalculator.calculateRiskPercent returns, is riskAmount divided by the
\* accountSize of the currently saved settings, times 100 (0 when that account
\* size is 0), also after saveSettings changed the account size.
C13_RiskPercentUsesSavedAccountSize ==
    /\ (Returned("addTrade") \/ Returned("updateTrade")) =>
          (~TruthyNum(last.res.merged, "accountSize") =>
              last.res.ret.riskPercent = PercentOfSavedAccount(last.res.ret.riskAmount))
    /\ last.op = "TradeCalculator.calculateRiskPercent" =>
          (~TruthyNum(last.trade, "accountSize") =>
              last.ret = PercentOfSavedAccount(calculateRiskAmount(last.trade)))

(***************************************************************************)
(* The statistics: the array a statistic is given is the stored one        *)
(* (getAllTrades(), or loadTrades() when getPerformanceSummary is given    *)
(* none); here `trades` is that array.  Only the calls that sort their     *)
(* argument in place change it.                                            *)
(***************************************************************************)
MaxLedger == 3

\* the trades entered: a winner of 520, a loser of 47 and a winner of 300
\* whose exits are not in the order of entry, a closed trade that broke even,
\* an open trade, a cancelled one that has an exit price, and a loser of 20
\* that exits on the day the winner of 300 does
LedgerSources ==
    << [assetType |-> "stocks", symbol |-> "AAPL", direction |-> "long", status |-> "closed",
        positionSize |-> 53, entryPrice |-> 100, entryDate |-> 1, exitPrice |-> 110,
        exitDate |-> 5, commission |-> 10, strategy |-> "breakout",
        emotionalState |-> "calm"],
       [assetType |-> "forex", symbol |-> "EUR/USD", direction |-> "long", status |-> "closed",
        positionSize |-> 42, entryPrice |-> 100, entryDate |-> 2, exitPrice |-> 99,
        exitDate |-> 3, commission |-> 5, strategy |-> "breakout",
        emotionalState |-> "anxious"],
       [assetType |-> "stocks", symbol |-> "MSFT", direction |-> "short", status |-> "closed",
        positionSize |-> 30, entryPrice |-> 100, entryDate |-> 3, exitPrice |-> 90,
        exitDate |-> 4, strategy |-> "reversal", emotionalState |-> "calm"],
       [assetType |-> "stocks", symbol |-> "AAPL", direction |-> "long", status |-> "closed",
        positionSize |-> 10, entryPrice |-> 100, entryDate |-> 4, exitPrice |-> 100,
        exitDate |-> 4],
       [assetType |-> "forex", symbol |-> "EUR/USD", direction |-> "short", status |-> "open",
        positionSize |-> 10, entryPrice |-> 100, entryDate |-> 2, strategy |-> "reversal"],
       [assetType |-> "crypto", symbol |-> "BTC", direction |-> "long",
        status |-> "cancelled", positionSize |-> 10, entryPrice |-> 100, entryDate |-> 1,
        exitPrice |-> 110, exitDate |-> 2, strategy |-> "breakout",
        emotionalState |-> "anxious"],
       [assetType |-> "options", symbol |-> "SPY", direction |-> "long", status |-> "closed",
        positionSize |-> 20, entryPrice |-> 100, entryDate |-> 3, exitPrice |-> 99,
        exitDate |-> 4] >>

\* the arrays addTrade leaves after entering up to MaxLedger of them, each
\* created at time 1: ids in the order of entry, derived fields computed
Ledgers ==
    UNION { { [i \in 1 .. n |->
                  recalculate(Merge(Merge([id |-> i], LedgerSources[f[i]]),
                                    [createdAt |-> 1, updatedAt |-> 1]))] :
              f \in [1 .. n -> DOMAIN LedgerSources] } : n \in 0 .. MaxLedger }

\* the settings that can have been saved
SavedSettings == {DefaultSettings} \cup {s \in SettingsInputs : validateSettings(s) = <<>>}

InitStats ==
    /\ trades \in Ledgers
    /\ nextId = Len(trades) + 1
    /\ last = [op |-> "constructor"]
    /\ settings \in SavedSettings
    /\ calculator = settings

\* tradeManager.getPerformanceSummary(): trades || this.loadTrades()
SummaryOfTrades ==
    /\ last' = [op |-> "getPerformanceSummary", ret |-> getPerformanceSummary(trades)]
    /\ UNCHANGED <<trades, nextId, settings, calculator>>

WinRateOfTrades ==
    /\ last' = [op |-> "calculateWinRate", ret |-> calculateWinRate(trades)]
    /\ UNCHANGED <<trades, nextId, settings, calculator>>

ProfitFactorOfTrades ==
    /\ last' = [op |-> "calculateProfitFactor", ret |-> calculateProfitFactor(trades)]
    /\ UNCHANGED <<trades, nextId, settings, calculator>>

AverageWinOfTrades ==
    /\ last' = [op |-> "calculateAverageWin", ret |-> calculateAverageWin(trades)]
    /\ UNCHANGED <<trades, nextId, settings, calculator>>

AverageLossOfTrades ==
    /\ last' = [op |-> "calculateAverageLoss", ret |-> calculateAverageLoss(trades)]
    /\ UNCHANGED <<trades, nextId, settings, calculator>>

PerformanceByAssetTypeOfTrades ==
    /\ last' = [op |-> "getPerformanceByAssetType", key |-> "assetType",
                ret |-> getPerformanceByAssetType(trades)]
    /\ UNCHANGED <<trades, nextId, settings, calculator>>

PerformanceByStrategyOfTrades ==
    /\ last' = [op |-> "getPerformanceByStrategy", key |-> "strategy",
                ret |-> getPerformanceByStrategy(trades)]
    /\ UNCHANGED <<trades, nextId, settings, calculator>>

PerformanceByEmotionalStateOfTrades ==
    /\ last' = [op |-> "getPerformanceByEmotionalState", key |-> "emotionalState",
                ret |-> getPerformanceByEmotionalState(trades)]
    /\ UNCHANGED <<trades, nextId, settings, calculator>>

\* the initial capital: the default of the parameter, and another
CapitalInputs == {DefaultInitialCapital, 2500}

\* the instants new Date() reads when a statistic is computed
ReportTimes == {1, 2}

EquityCurveOfTrades ==
    \E initialCapital \in CapitalInputs, now \in ReportTimes :
        /\ last' = [op |-> "getEquityCurveData", initialCapital |-> initialCapital,
                    ret |-> getEquityCurveData(trades, initialCapital, now)]
        /\ UNCHANGED <<trades, nextId, settings, calculator>>

TradeFrequencyOfTrades ==
    /\ last' = [op |-> "getTradeFrequencyAnalysis",
                ret |-> getTradeFrequencyAnalysis(trades)]
    /\ UNCHANGED <<trades, nextId, settings, calculator>>

\* the arrays getPositionSizingAnalysis is given: the stored one, and the
\* same trades with a position size of 0
SizingInputs(stored) ==
    {stored, [i \in 1 .. Len(stored) |-> Merge(stored[i], [positionSize |-> 0])]}

PositionSizingOfTrades ==
    \E ts \in SizingInputs(trades) :
        /\ last' = [op |-> "getPositionSizingAnalysis", trades |-> ts,
                    ret |-> getPositionSizingAnalysis(ts, calculator)]
        /\ UNCHANGED <<trades, nextId, settings, calculator>>

\* tradeManager.calculateStreaks(trades) on an array of closed trades, as
\* getPerformanceSummary calls it: trades.sort(...) sorts the array given
CalculateStreaksOfTrades ==
    /\ \A i \in 1 .. Len(trades) : isClosed(trades[i])
    /\ last' = [op |-> "calculateStreaks", trades |-> trades, ret |-> calculateStreaks(trades)]
    /\ trades' = sortByExitDate(trades, TRUE)
    /\ UNCHANGED <<nextId, settings, calculator>>

\* tradeManager.calculateMaxDrawdown(trades) on an array of closed trades, as
\* getPerformanceSummary calls it: trades.sort(...) sorts the array given
CalculateMaxDrawdownOfTrades ==
    /\ \A i \in 1 .. Len(trades) : isClosed(trades[i])
    /\ last' = [op |-> "calculateMaxDrawdown", trades |-> trades,
                ret |-> calculateMaxDrawdown(trades)]
    /\ trades' = sortByExitDate(trades, FALSE)
    /\ UNCHANGED <<nextId, settings, calculator>>

\* tradeCalculator.calculateMaxDrawdown(trades): it sorts the filtered copy
MaxDrawdownOfTrades ==
    /\ last' = [op |-> "TradeCalculator.calculateMaxDrawdown", trades |-> trades,
                ret |-> TradeCalculator_calculateMaxDrawdown(trades)]
    /\ UNCHANGED <<trades, nextId, settings, calculator>>

MaxDrawdownPercentOfTrades ==
    /\ last' = [op |-> "calculateMaxDrawdownPercent", trades |-> trades,
                ret |-> calculateMaxDrawdownPercent(trades)]
    /\ UNCHANGED <<trades, nextId, settings, calculator>>

\* tradeManager.calculateRiskPercent(trade)
CalculateRiskPercent ==
    \E trade \in RiskPercentInputs :
        /\ last' = [op |-> "calculateRiskPercent", trade |-> trade,
                    ret |-> calculateRiskPercent(trade)]
        /\ UNCHANGED <<trades, nextId, settings, calculator>>

NextStats ==
    \/ SummaryOfTrades
    \/ WinRateOfTrades
    \/ ProfitFactorOfTrades
    \/ AverageWinOfTrades
    \/ AverageLossOfTrades
    \/ PerformanceByAssetTypeOfTrades
    \/ PerformanceByStrategyOfTrades
    \/ PerformanceByEmotionalStateOfTrades
    \/ EquityCurveOfTrades
    \/ TradeFrequencyOfTrades
    \/ PositionSizingOfTrades
    \/ CalculateStreaksOfTrades
    \/ CalculateMaxDrawdownOfTrades
    \/ MaxDrawdownOfTrades
    \/ MaxDrawdownPercentOfTrades
    \/ CalculateRiskPercent
    \/ TradeCalculatorCalculateRiskPercent

SpecStats == InitStats /\ [][NextStats]_vars

(***************************************************************************)
(* The backup of the settings page: exportAllData downloads the file       *)
(* exportToCSV writes of the stored trades, handleFileImport gives a       *)
(* chosen file to importFromCSV.  The file chosen is the one downloaded    *)
(* last, kept in `last`.                                                   *)
(***************************************************************************)
\* the ids generateId() can have handed out when the file has been imported
MaxImportedId == 2 * MaxLedger

ExportAllData ==
    /\ last' = [op |-> "exportAllData", res |-> exportToCSV(trades)]
    /\ UNCHANGED <<trades, nextId, settings, calculator>>

HandleFileImport ==
    /\ last.op = "exportAllData"
    /\ last.res.outcome = "return"
    /\ \E now \in Times, storageOk \in BOOLEAN :
           \E r \in {importFromCSV(trades, last.res.ret, nextId, now, storageOk)} :
               /\ nextId + r.idsUsed <= MaxImportedId + 1
               /\ trades' = r.store
               /\ nextId' = nextId + r.idsUsed
               /\ last' = [op |-> "handleFileImport", csvContent |-> last.res.ret,
                           res |-> Outcome(r)]
               /\ UNCHANGED <<settings, calculator>>

NextCsv == ExportAllData \/ HandleFileImport

SpecCsv == InitStats /\ [][NextCsv]_vars

\* the positions of the closed trades, of the closed winners and losers
ClosedAt == {i \in 1 .. Len(trades) : trades[i].status = "closed"}

WinnersAt == {i \in ClosedAt : trades[i].profitLoss > 0}

LosersAt == {i \in ClosedAt : trades[i].profitLoss < 0}

\* the profitLoss of the trades in order, and whether they are the closed
\* trades +520, -47, +300 of the example
ProfitLosses == [i \in 1 .. Len(trades) |-> trades[i].profitLoss]

IsExampleLedger == ProfitLosses = <<520, -47, 300>> /\ ClosedAt = {1, 2, 3}

\* C14: winRate, in getPerformanceSummary and in calculateWinRate, is the
\* number of closed trades with profitLoss > 0 divided by the number of closed
\* trades, times 100, and 0 when no trade is closed: a closed trade that broke
\* even counts in the denominator only, open and cancelled trades count
\* nowhere; closed trades of +520, -47 and +300 give 200/3, about 66.67.
C14_WinRateOverClosedTrades ==
    LET winRate == IF ClosedAt = {} THEN Zero
                   ELSE Div(Cardinality(WinnersAt) * 100, Cardinality(ClosedAt))
    IN  /\ last.op = "getPerformanceSummary" =>
              /\ last.ret.winRate = winRate
              /\ IsExampleLedger => (last.ret.winRate.num * 100) \div last.ret.winRate.den = 6666
        /\ last.op = "calculateWinRate" =>
              /\ last.ret = winRate
              /\ IsExampleLedger => (last.ret.num * 100) \div last.ret.den = 6666

\* C14's case: the summary of a winner, a trade that broke even and a
\* cancelled trade with a profit gives a win rate of 50
C14_Witness ==
    /\ last.op = "getPerformanceSummary"
    /\ Len(trades) = 3
    /\ Cardinality(ClosedAt) = 2
    /\ \E i \in ClosedAt : trades[i].profitLoss = 0
    /\ \E i \in 1 .. 3 : trades[i].status = "cancelled" /\ trades[i].profitLoss > 0
    /\ last.ret.winRate = Div(50, 1)

\* the sum of the profitLoss of the trades at the positions S
RECURSIVE ProfitLossAt(_)
ProfitLossAt(S) ==
    IF S = {} THEN 0
    ELSE LET i == CHOOSE j \in S : TRUE
         IN  trades[i].profitLoss + ProfitLossAt(S \ {i})

\* C15: profitFactor, in getPerformanceSummary and in calculateProfitFactor,
\* is the sum of the closed winners' profitLoss divided by the absolute value
\* of the sum of the closed losers' profitLoss, and 0 when there is no closed
\* loser; closed trades of +520, -47 and +300 give 820/47, about 17.45; the
\* two functions agree.
C15_ProfitFactorOfClosedTrades ==
    LET profitFactor == IF LosersAt = {} THEN Zero
                        ELSE Div(ProfitLossAt(WinnersAt), Abs(ProfitLossAt(LosersAt)))
    IN  /\ last.op = "getPerformanceSummary" =>
              /\ last.ret.profitFactor = profitFactor
              /\ last.ret.profitFactor = calculateProfitFactor(trades)
              /\ IsExampleLedger => last.ret.profitFactor = [num |-> 820, den |-> 47]
        /\ last.op = "calculateProfitFactor" =>
              /\ last.ret = profitFactor
              /\ last.ret = getPerformanceSummary(trades).profitFactor
              /\ IsExampleLedger => (last.ret.num * 100) \div last.ret.den = 1744

\* C15's case: the profit factor of the closed trades +520, -47, +300
C15_Witness ==
    /\ last.op = "calculateProfitFactor"
    /\ IsExampleLedger
    /\ last.ret = [num |-> 820, den |-> 47]

\* C16: averageWin is the mean profitLoss of the closed winners and
\* averageLoss the mean profitLoss of the closed losers, a negative number;
\* each is 0 when its set is empty; the averageLoss of getPerformanceSummary
\* and the result of calculateAverageLoss are the same value.
C16_AverageWinAndLoss ==
    LET averageWin == IF WinnersAt = {} THEN Zero
                      ELSE Div(ProfitLossAt(WinnersAt), Cardinality(WinnersAt))
        averageLoss == IF LosersAt = {} THEN Zero
                       ELSE Div(ProfitLossAt(LosersAt), Cardinality(LosersAt))
    IN  /\ last.op = "calculateAverageWin" => last.ret = averageWin
        /\ last.op = "calculateAverageLoss" => last.ret = averageLoss
        /\ last.op = "getPerformanceSummary" =>
              /\ last.ret.averageWin = averageWin
              /\ last.ret.averageLoss = averageLoss
              /\ last.ret.averageLoss = calculateAverageLoss(trades)

\* the positions of the closed trades whose field `key` is `value`
ClosedOfGroup(key, value) ==
    {i \in ClosedAt : Has(trades[i], key) /\ trades[i][key] = value}

\* C17: in each group of getPerformanceByAssetType, getPerformanceByStrategy
\* and getPerformanceByEmotionalState only closed trades count towards
\* winningTrades and losingTrades, so that winningTrades + losingTrades is at
\* most the number of closed trades of the group and winRate is winningTrades
\* divided by that number, times 100.
C17_GroupsCountClosedTradesOnly ==
    last.op \in {"getPerformanceByAssetType", "getPerformanceByStrategy",
                 "getPerformanceByEmotionalState"} =>
        \A g \in DOMAIN last.ret :
            LET closed == ClosedOfGroup(last.key, g)
                entry == last.ret[g]
            IN  /\ entry.winningTrades = Cardinality(closed \cap WinnersAt)
                /\ entry.losingTrades = Cardinality(closed \cap LosersAt)
                /\ entry.winningTrades + entry.losingTrades <= Cardinality(closed)
                /\ entry.winRate = IF closed = {} THEN Zero
                                   ELSE Div(entry.winningTrades * 100, Cardinality(closed))

\* C18: getEquityCurveData returns one point per closed trade, in ascending
\* order of exit date, the k-th with equity = initialCapital plus the
\* profitLoss of the first k trades in that order; without a closed trade it
\* returns exactly one point, whose equity is initialCapital.
C18_EquityCurveOverClosedTrades ==
    last.op = "getEquityCurveData" =>
        LET points == last.ret
        IN  IF ClosedAt = {}
            THEN Len(points) = 1 /\ points[1].equity = last.initialCapital
            ELSE /\ Len(points) = Cardinality(ClosedAt)
                 /\ {points[k].tradeId : k \in 1 .. Len(points)}
                        = {trades[i].id : i \in ClosedAt}
                 /\ \A k \in 1 .. Len(points) :
                        /\ \E i \in ClosedAt :
                               /\ points[k].tradeId = trades[i].id
                               /\ points[k].date = trades[i].exitDate
                               /\ points[k].pl = trades[i].profitLoss
                        /\ k > 1 => points[k - 1].date <= points[k].date
                        /\ points[k].equity
                               = (IF k = 1 THEN last.initialCapital ELSE points[k - 1].equity)
                                 + points[k].pl

\* C18's case: the curve of the closed trades +520, -47, +300, which exit in
\* the order -47, +300, +520, from a capital of 10000
C18_Witness ==
    /\ last.op = "getEquityCurveData"
    /\ IsExampleLedger
    /\ last.initialCapital = 10000
    /\ [k \in 1 .. Len(last.ret) |-> last.ret[k].equity] = <<9953, 10253, 10773>>

\* the number of closed trades entered on day d of the week (0 = Sunday)
EnteredOn(d) == Cardinality({i \in ClosedAt : trades[i].entryDate % 7 = d})

\* C19: in getTradeFrequencyAnalysis, when several days of the week have the
\* highest (or the lowest) number of closed trades, mostActiveDay (or
\* leastActiveDay) is the one of lowest day index, 0 being Sunday.
C19_TiesGoToLowestDayIndex ==
    (last.op = "getTradeFrequencyAnalysis" /\ ClosedAt # {}) =>
        LET most == CHOOSE d \in 0 .. 6 :
                        /\ \A e \in 0 .. 6 : EnteredOn(e) <= EnteredOn(d)
                        /\ \A e \in 0 .. d - 1 : EnteredOn(e) < EnteredOn(d)
            least == CHOOSE d \in 0 .. 6 :
                        /\ \A e \in 0 .. 6 : EnteredOn(e) >= EnteredOn(d)
                        /\ \A e \in 0 .. d - 1 : EnteredOn(e) > EnteredOn(d)
        IN  /\ last.ret.mostActiveDay = dayNames[most + 1]
            /\ last.ret.leastActiveDay = dayNames[least + 1]

\* C20: the recommendedPositionSize of getPositionSizingAnalysis is
\* (settings.accountSize * settings.riskPerTrade) / 100 / averagePositionSize,
\* and 0, never Infinity or NaN, when the denominator is zero, in particular
\* when the closed trades' average position size is 0.
C20_RecommendedPositionSize ==
    last.op = "getPositionSizingAnalysis" =>
        LET closed == {i \in 1 .. Len(last.trades) : last.trades[i].status = "closed"}
            sizes == [i \in closed |-> last.trades[i].positionSize]
            total == sumPositionSizes(SelectSeq(last.trades, isClosed))
        IN  /\ last.ret.recommendedPositionSize.den # 0
            /\ last.ret.recommendedPositionSize
                   = IF closed = {} \/ (\A i \in closed : sizes[i] = 0) THEN Zero
                     ELSE Div(settings.accountSize * settings.riskPerTrade * Cardinality(closed),
                              100 * total)

\* the closed trades of an array in ascending order of exit date, and whether
\* no two of them have the same exit date
Chronological(ts) == sortByExitDate(SelectSeq(ts, isClosed), FALSE)

DistinctExitDates(ts) ==
    \A i, j \in 1 .. Len(ts) :
        (i # j /\ isClosed(ts[i]) /\ isClosed(ts[j])) => ts[i].exitDate # ts[j].exitDate

\* the signed run counter after the trades ts, scanned in their order
RunAfter(ts) == streaksFrom(ts, 1, 0, 0, 0).current

\* C21: the currentStreak of calculateStreaks and of getPerformanceSummary is
\* the signed length of the run of wins or of losses that ends at the closed
\* trade with the most recent exit date.
C21_CurrentStreakEndsAtLatestExit ==
    /\ (last.op = "getPerformanceSummary" /\ DistinctExitDates(trades)) =>
          last.ret.currentStreak = RunAfter(Chronological(trades))
    /\ (last.op = "calculateStreaks" /\ DistinctExitDates(last.trades)) =>
          last.ret.current = RunAfter(Chronological(last.trades))

\* C22: bestStreak and worstStreak are the largest positive and the smallest
\* negative value that a signed run counter reaches over the closed trades in
\* the order of their exit dates, a trade with profitLoss 0 leaving the
\* counter as it is; the two values are the same whether the trades are
\* scanned in ascending or in descending order of exit date, also when
\* several trades have the same exit date.
C22_StreaksSameInBothDirections ==
    LET ascending(ts) == streaksFrom(sortByExitDate(SelectSeq(ts, isClosed), FALSE), 1, 0, 0, 0)
        descending(ts) == streaksFrom(sortByExitDate(SelectSeq(ts, isClosed), TRUE), 1, 0, 0, 0)
    IN  /\ last.op = "getPerformanceSummary" =>
              /\ last.ret.bestStreak = ascending(trades).best
              /\ last.ret.bestStreak = descending(trades).best
              /\ last.ret.worstStreak = ascending(trades).worst
              /\ last.ret.worstStreak = descending(trades).worst
        /\ last.op = "calculateStreaks" =>
              /\ last.ret.best = ascending(last.trades).best
              /\ last.ret.best = descending(last.trades).best
              /\ last.ret.worst = ascending(last.trades).worst
              /\ last.ret.worst = descending(last.trades).worst

\* the largest number of a non-empty finite set
LargestOf(S) == CHOOSE x \in S : \A y \in S : y <= x

\* the largest of (running peak - running total) over the closed trades of ts
\* in ascending order of exit date, total and peak starting at 0
DeepestDrawdown(ts) ==
    LET seq == Chronological(ts)
        total(k) == sumProfitLoss(SubSeq(seq, 1, k))
        peak(k) == LargestOf({0} \cup {total(j) : j \in 1 .. k})
    IN  LargestOf({0} \cup {peak(k) - total(k) : k \in 1 .. Len(seq)})

Given(call) == [k \in (DOMAIN call) \ {"ret"} |-> call[k]]

\* C24: for a fixed array of trades and fixed settings every aggregation
\* returns the same output when it is called again: a call that follows a
\* call of the same function with the same arguments on the same array
\* returns what that call returned.
C24_RepeatedCallsAgree ==
    [][(Has(last, "ret") /\ Has(last', "ret") /\ Given(last') = Given(last))
          => last'.ret = last.ret]_vars

\* the arrays that hold the trades of ts in any order
Reorderings(ts) ==
    {[i \in 1 .. Len(ts) |-> ts[p[i]]] : p \in Permutations(1 .. Len(ts))}

\* C25: the aggregations do not depend on the order in which the trades are
\* given: getPerformanceSummary (maxDrawdown and the three streak values
\* included), calculateMaxDrawdownPercent and getEquityCurveData return, for
\* every reordering of the array, what they return for the array, also when
\* several closed trades have the same exit date.
C25_OrderOfTradesIsIrrelevant ==
    /\ last.op = "getPerformanceSummary" =>
          \A other \in Reorderings(trades) : getPerformanceSummary(other) = last.ret
    /\ last.op = "calculateMaxDrawdownPercent" =>
          \A other \in Reorderings(trades) : calculateMaxDrawdownPercent(other) = last.ret
    /\ (last.op = "getEquityCurveData" /\ ClosedAt # {}) =>
          \A other \in Reorderings(trades) :
              getEquityCurveData(other, last.initialCapital, 1) = last.ret

\* an array without a closed trade: empty, or holding open trades only
NothingClosed(ts) == \A i \in 1 .. Len(ts) : ts[i].status = "open"

\* the closed trades of the array were all entered on one day (a single
\* closed trade, for one)
EnteredOnOneDay(ts) ==
    /\ \E i \in 1 .. Len(ts) : isClosed(ts[i])
    /\ \A i, j \in 1 .. Len(ts) :
          (isClosed(ts[i]) /\ isClosed(ts[j])) => ts[i].entryDate = ts[j].entryDate

\* C26: on the degenerate inputs (an empty array, an array of open trades
\* only, an accountSize of 0 on the trade and in the settings, a riskAmount
\* of 0, a single closed trade or closed trades all entered on one day) the
\* ratios and percentages whose denominator vanishes are 0, never NaN or
\* Infinity.
C26_DegenerateInputsGiveZero ==
    /\ (last.op = "getPerformanceSummary" /\ NothingClosed(trades)) =>
          \A k \in {"winRate", "profitFactor", "averageWin", "averageLoss",
                     "averageRiskReward"} : last.ret[k] = Zero
    /\ (last.op \in {"calculateWinRate", "calculateProfitFactor", "calculateAverageWin",
                      "calculateAverageLoss", "calculateMaxDrawdownPercent"}
          /\ NothingClosed(trades)) => last.ret = Zero
    /\ (last.op \in {"getPerformanceByAssetType", "getPerformanceByStrategy",
                      "getPerformanceByEmotionalState"} /\ NothingClosed(trades)) =>
          \A g \in DOMAIN last.ret :
              \A k \in {"winRate", "profitFactor", "averageRR"} : last.ret[g][k] = Zero
    /\ (last.op = "getTradeFrequencyAnalysis"
          /\ (NothingClosed(trades) \/ EnteredOnOneDay(trades))) =>
          \A k \in {"averageTradesPerWeek", "averageTradesPerMonth", "tradingDaysPerWeek"} :
              last.ret[k] = Zero
    /\ (last.op = "getPositionSizingAnalysis" /\ NothingClosed(last.trades)) =>
          last.ret.recommendedPositionSize = Zero
    /\ (last.op \in {"calculateRiskPercent", "TradeCalculator.calculateRiskPercent"}
          /\ ((~TruthyNum(last.trade, "accountSize") /\ Has(last.trade, "accountSize")
                   /\ settings.accountSize = 0)
               \/ calculateRiskAmount(last.trade) = 0)) =>
          last.ret = Zero

\* C27: no aggregation reorders the array it is given: after a call of
\* getPerformanceSummary, of TradeDataManager.calculateStreaks or
\* calculateMaxDrawdown, or of an aggregation of TradeCalculator, the array
\* holds the same elements in the same order as before the call.
C27_AggregationsLeaveTheArray ==
    [][trades' = trades]_vars

\* C28: validation is the same on create and on update: after addTrade has
\* accepted and stored a trade, an immediately following updateTrade(id, {})
\* succeeds and leaves every field of the record but updatedAt, the six
\* derived fields included, as it was; a second such call gives the same
\* derived values again.
C28_EmptyUpdateAfterAddSucceeds ==
    [][(/\ last.op \in {"addTrade", "updateTrade"}
        /\ last.res.outcome = "return"
        /\ last.res.saved
        /\ last.op = "updateTrade" => last.updates = NoKeys
        /\ last'.op = "updateTrade"
        /\ last'.tradeId = last.res.ret.id
        /\ last'.updates = NoKeys)
          => /\ last'.res.outcome = "return"
             /\ DOMAIN last'.res.ret = DOMAIN last.res.ret
             /\ \A k \in (DOMAIN last.res.ret) \ {"updatedAt"} :
                    last'.res.ret[k] = last.res.ret[k]]_vars

\* C29: a write is reported as successful only if it was persisted: whenever
\* addTrade or updateTrade returns a trade, deleteTrade returns true or
\* importFromCSV returns a count, the collection a following loadTrades reads
\* reflects the change (the returned trade is stored, the deleted id is gone,
\* the imported rows are the last ones of the collection).
C29_ReportedWritesArePersisted ==
    /\ Returned("addTrade") =>
           /\ trades # <<>>
           /\ trades[Len(trades)] = last.res.ret
    /\ Returned("updateTrade") =>
           /\ last.res.index \in 1 .. Len(trades)
           /\ trades[last.res.index] = last.res.ret
    /\ Returned("deleteTrade") =>
           \A i \in 1 .. Len(trades) : trades[i].id # last.tradeId
    /\ Returned("importFromCSV") =>
           /\ Len(trades) >= last.res.ret
           /\ SubSeq(trades, Len(trades) - last.res.ret + 1, Len(trades)) = last.res.parsed

\* the fields of a trade that are entered, not derived
SourceFields ==
    {"assetType", "symbol", "direction", "status", "positionSize", "entryPrice",
     "entryDate", "exitPrice", "exitDate", "commission", "stopLoss", "takeProfit"}

\* C30: the export and the import of CSV round-trip: for a non-empty
\* collection of stored (valid) trades, importing the file exportToCSV wrote
\* of them succeeds and appends one record per exported trade, whose source
\* fields equal those the exported trade has.
C30_ExportImportRoundTrip ==
    [][last'.op = "handleFileImport" =>
          /\ last'.res.outcome = "return"
          /\ last'.res.ret = Len(trades)
          /\ Len(trades') = 2 * Len(trades)
          /\ \A i \in 1 .. Len(trades) :
                 \A k \in SourceFields \cap DOMAIN trades[i] :
                     /\ Has(trades'[Len(trades) + i], k)
                     /\ trades'[Len(trades) + i][k] = trades[i][k]]_vars

====
